---- MODULE Spec2Model ----
(***************************************************************************)
(* Model of the post-quantum operation layer of hootzluh/pqc:              *)
(*   - pqno_std : error taxonomy, randomness capability, ML-KEM-512 facade *)
(*                over a seeded C backend, placeholder variants;           *)
(*   - pqnostd  : typed KEM and signature facades over the pqcrypto        *)
(*                backend, and the string-keyed PqcInterface dispatcher;   *)
(*   - pallet   : the substrate PqcInterface placeholder dispatcher.       *)
(*                                                                         *)
(* A caller-owned byte buffer is a sequence of runs [n, v, off]: n bytes   *)
(* taken from offset off of the encoding of the value v.  Values are       *)
(* symbolic (a key, a ciphertext, a shared secret, a signed message, the   *)
(* zero fill a caller starts from); lengths are the real byte lengths.     *)
(***************************************************************************)
EXTENDS Integers, Sequences, FiniteSets, TLC

VARIABLES alg, pk, sk, ct, ss, ss2, sig, last, ncalls, statics, kat, ctx

vars == <<alg, pk, sk, ct, ss, ss2, sig, last, ncalls, statics, kat, ctx>>

bufs == <<pk, sk, ct, ss, ss2, sig>>

(* ------------------------------ bounds -------------------------------- *)

\* number of facade / dispatcher calls a caller makes on its buffers
MaxCalls == 3

\* how far a caller's buffer length strays from the descriptor length
Slack == 1

\* number of distinct seeds / key pairs the backend can produce
MaxKeys == 1

\* longest region handed to the foreign randomness hook
MaxRegion == 3

\* number of lines of a response file the KAT verifier reads
MaxLines == 7

KeyIds == 1..MaxKeys

\* messages a caller signs or verifies
Msgs == {1, 2}

(* ------------------- pqno_std: error taxonomy ------------------------- *)

ErrorKinds ==
    {"InvalidInput", "BufferTooSmall", "RngFailure", "VerificationFailed",
     "HardwareAccelUnavailable", "MemoryAllocationFailed",
     "UnsupportedOperation", "InternalError"}

\* #[repr(u8)] discriminants of enum Error
Discriminant ==
    [InvalidInput |-> 1, BufferTooSmall |-> 2, RngFailure |-> 3,
     VerificationFailed |-> 4, HardwareAccelUnavailable |-> 5,
     MemoryAllocationFailed |-> 6, UnsupportedOperation |-> 7,
     InternalError |-> 8]

U8 == 0..255

\* a code() that numbers the kinds from 0, as an enum without explicit
\* discriminants would
code_from_zero(e) == (Discriminant[e] - 1) % 256

\* Error::code : *self as u8
code(e) == Discriminant[e] % 256

\* a conversion result: Ok(kind) or Err(())
ConvOk(e) == [ok |-> TRUE, kind |-> e]

ConvErr == [ok |-> FALSE, kind |-> ""]

\* impl TryFrom<u8> for Error
try_from(value) ==
    CASE value = 1 -> ConvOk("InvalidInput")
      [] value = 2 -> ConvOk("BufferTooSmall")
      [] value = 3 -> ConvOk("RngFailure")
      [] value = 4 -> ConvOk("VerificationFailed")
      [] value = 5 -> ConvOk("HardwareAccelUnavailable")
      [] value = 6 -> ConvOk("MemoryAllocationFailed")
      [] value = 7 -> ConvOk("UnsupportedOperation")
      [] value = 8 -> ConvOk("InternalError")
      [] OTHER -> ConvErr

(* ----------------------- algorithm descriptors ------------------------ *)

\* pqnostd::kem : PUBLIC_KEY_LEN / SECRET_KEY_LEN / CIPHERTEXT_LEN /
\* SHARED_SECRET_LEN of each KEM variant
PqnostdKem ==
    [MlKem512  |-> [pk |-> 800,  sk |-> 1632, ct |-> 768,   ss |-> 32],
     MlKem768  |-> [pk |-> 1184, sk |-> 2400, ct |-> 1088,  ss |-> 32],
     MlKem1024 |-> [pk |-> 1568, sk |-> 3168, ct |-> 1568,  ss |-> 32],
     Hqc128    |-> [pk |-> 2249, sk |-> 57,   ct |-> 4481,  ss |-> 32],
     Hqc192    |-> [pk |-> 4522, sk |-> 57,   ct |-> 9026,  ss |-> 32],
     Hqc256    |-> [pk |-> 7245, sk |-> 57,   ct |-> 14469, ss |-> 32]]

\* pqnostd::sign : PUBLIC_KEY_LEN / SECRET_KEY_LEN / SIGNATURE_LEN_MAX
PqnostdSign ==
    [MlDsa44    |-> [pk |-> 1312, sk |-> 2560, sig |-> 2420],
     MlDsa65    |-> [pk |-> 1952, sk |-> 4032, sig |-> 3309],
     MlDsa87    |-> [pk |-> 2592, sk |-> 4896, sig |-> 4627],
     Falcon512  |-> [pk |-> 897,  sk |-> 1281, sig |-> 666],
     Falcon1024 |-> [pk |-> 1793, sk |-> 2305, sig |-> 1280]]

\* pqno_std::kem : PUBLIC_KEY_SIZE / SECRET_KEY_SIZE / CIPHERTEXT_SIZE /
\* SHARED_SECRET_SIZE
PqNoStdKem ==
    [MlKem512  |-> [pk |-> 800,  sk |-> 1632, ct |-> 768,  ss |-> 32],
     MlKem768  |-> [pk |-> 1184, sk |-> 2400, ct |-> 1088, ss |-> 32],
     MlKem1024 |-> [pk |-> 1568, sk |-> 3168, ct |-> 1568, ss |-> 32],
     HqcKem128 |-> [pk |-> 2249, sk |-> 2289, ct |-> 4481, ss |-> 32]]

KemVariants == DOMAIN PqnostdKem

SignVariants == DOMAIN PqnostdSign

NoStdVariants == DOMAIN PqNoStdKem

(* ------------------------------ buffers ------------------------------- *)

\* the zero fill of a freshly created caller buffer ([0u8; N])
Zero == [t |-> "zero", alg |-> "", k |-> 0, a |-> 0, n |-> 0]

ZeroBuf(n) == IF n = 0 THEN <<>> ELSE <<[n |-> n, v |-> Zero, off |-> 0]>>

\* slice.len()
RECURSIVE BLen(_)
BLen(b) == IF b = <<>> THEN 0 ELSE Head(b).n + BLen(Tail(b))

\* the bytes of b from index n on (&b[n..])
RECURSIVE Drop(_, _)
Drop(b, n) ==
    IF n = 0 \/ b = <<>> THEN b
    ELSE IF Head(b).n <= n THEN Drop(Tail(b), n - Head(b).n)
    ELSE <<[n   |-> Head(b).n - n,
            v   |-> Head(b).v,
            off |-> IF Head(b).v.t = "zero" THEN 0 ELSE Head(b).off + n]>>
         \o Tail(b)

\* as_bytes() of a backend object: its whole encoding
Enc(v) == IF v.n = 0 THEN <<>> ELSE <<[n |-> v.n, v |-> v, off |-> 0]>>

\* a write that zeroes the rest of the buffer behind the bytes it copies
WritePrefixClearing(b, bytes) == bytes \o ZeroBuf(BLen(b) - BLen(bytes))

\* b[..bytes.len()].copy_from_slice(bytes), for bytes.len() <= b.len()
WritePrefix(b, bytes) == bytes \o Drop(b, BLen(bytes))

\* the value a buffer holds when it is exactly one whole encoding
Holds(b, t) == Len(b) = 1 /\ b[1].off = 0 /\ b[1].v.t = t /\ b[1].n = b[1].v.n

(* --------------------------- call results ----------------------------- *)

\* Result<(), Error>, Result<usize, Error>, Result<bool, Error>, or a panic
Ok == [tag |-> "Ok", err |-> "", n |-> 0, b |-> FALSE]

OkLen(n) == [tag |-> "Ok", err |-> "", n |-> n, b |-> FALSE]

OkBool(b) == [tag |-> "Ok", err |-> "", n |-> 0, b |-> b]

Err(e) == [tag |-> "Err", err |-> e, n |-> 0, b |-> FALSE]

Panic(m) == [tag |-> "Panic", err |-> m, n |-> 0, b |-> FALSE]

(* ------------------- the backend (opaque collaborator) ---------------- *)

HqcVariants == {"Hqc128", "Hqc192", "Hqc256"}

\* byte lengths of the backend's encodings (as_bytes().len()): the backend
\* encodes every object at its descriptor length
BackendKem(a) == PqnostdKem[a]

BackendSign(a) == PqnostdSign[a]

\* lengths the backend may give a signed message: up to the maximum, and
\* beyond it (the case sign() tests for)
SignedLens(a) == {PqnostdSign[a].sig - 1, PqnostdSign[a].sig, PqnostdSign[a].sig + 1}

Obj(t, a, k, x, n) == [t |-> t, alg |-> a, k |-> k, a |-> x, n |-> n]

\* <variant>::keypair() of the backend: the k-th key pair
BackendKeypair(a, k, lens) ==
    [pk |-> Obj("pk", a, k, 0, lens.pk), sk |-> Obj("sk", a, k, 0, lens.sk)]

\* T::from_bytes(bytes): Err on a length other than T's, else the object the
\* bytes encode (key 0: bytes that are no encoding the backend produced)
FromBytes(b, t, a, n) ==
    IF BLen(b) # n THEN [ok |-> FALSE, v |-> Zero]
    ELSE IF Holds(b, t) /\ b[1].v.alg = a THEN [ok |-> TRUE, v |-> b[1].v]
    ELSE [ok |-> TRUE, v |-> Obj(t, a, 0, 0, n)]

\* <variant>::encapsulate(&pk) of the backend, with encapsulation coins r
BackendEncapsulate(pko, r, lens) ==
    [ct |-> Obj("ct", pko.alg, pko.k, r, lens.ct),
     ss |-> Obj("ss", pko.alg, pko.k, r, lens.ss)]

\* <variant>::decapsulate(&ct, &sk) of the backend: the encapsulated secret
\* for the matching secret key, an unrelated secret otherwise (implicit
\* rejection)
BackendDecapsulate(cto, sko, lens) ==
    IF cto.k = sko.k /\ cto.k # 0
    THEN Obj("ss", cto.alg, cto.k, cto.a, lens.ss)
    ELSE Obj("ss", cto.alg, 0, 0, lens.ss)

\* <variant>::sign(msg, &sk) of the backend: a signed message of n bytes
BackendSignMsg(m, sko, n) == Obj("sm", sko.alg, sko.k, m, n)

\* <variant>::open(&sm, &pk) of the backend: Ok iff sm was signed by pk's key
BackendOpen(smo, pko) == smo.t = "sm" /\ smo.k = pko.k /\ smo.k # 0

(* ----------------------- pqnostd: KEM facades ------------------------- *)

\* buf[..n].copy_from_slice(bytes): panics when n exceeds the buffer or
\* differs from bytes.len()
CopyFixed(b, n, bytes) ==
    IF n > BLen(b) \/ BLen(bytes) # n
    THEN [ok |-> FALSE, b |-> b]
    ELSE [ok |-> TRUE, b |-> WritePrefix(b, bytes)]

\* a keypair that copies without testing the buffer lengths first
KeypairFixedUnchecked(L, kp, pkb, skb) ==
    LET c1 == CopyFixed(pkb, L.pk, Enc(kp.pk))
        c2 == CopyFixed(skb, L.sk, Enc(kp.sk))
    IN  IF ~c1.ok
        THEN [res |-> Panic("copy_from_slice"), pk |-> pkb, sk |-> skb,
              be |-> 1, ev |-> <<"backend", "panic">>]
        ELSE IF ~c2.ok
        THEN [res |-> Panic("copy_from_slice"), pk |-> c1.b, sk |-> skb,
              be |-> 1, ev |-> <<"backend", "write", "panic">>]
        ELSE [res |-> Ok, pk |-> c1.b, sk |-> c2.b,
              be |-> 1, ev |-> <<"backend", "write", "write">>]

\* a keypair that copies the public key and leaves the secret-key buffer
KeypairFixedPkOnly(L, kp, pkb, skb) ==
    IF BLen(pkb) < L.pk \/ BLen(skb) < L.sk
    THEN [res |-> Err("InvalidInput"), pk |-> pkb, sk |-> skb,
          be |-> 0, ev |-> <<"reject">>]
    ELSE LET c1 == CopyFixed(pkb, L.pk, Enc(kp.pk))
         IN  IF ~c1.ok
             THEN [res |-> Panic("copy_from_slice"), pk |-> pkb, sk |-> skb,
                   be |-> 1, ev |-> <<"check", "backend", "panic">>]
             ELSE [res |-> Ok, pk |-> c1.b, sk |-> skb,
                   be |-> 1, ev |-> <<"check", "backend", "write">>]

\* MlKem512/768/1024::keypair (and the signature variants' keypair)
KeypairFixed(L, kp, pkb, skb) ==
    IF BLen(pkb) < L.pk \/ BLen(skb) < L.sk
    THEN [res |-> Err("InvalidInput"), pk |-> pkb, sk |-> skb,
          be |-> 0, ev |-> <<"reject">>]
    ELSE LET c1 == CopyFixed(pkb, L.pk, Enc(kp.pk))
             c2 == CopyFixed(skb, L.sk, Enc(kp.sk))
         IN  IF ~c1.ok
             THEN [res |-> Panic("copy_from_slice"), pk |-> pkb, sk |-> skb,
                   be |-> 1, ev |-> <<"check", "backend", "panic">>]
             ELSE IF ~c2.ok
             THEN [res |-> Panic("copy_from_slice"), pk |-> c1.b, sk |-> skb,
                   be |-> 1, ev |-> <<"check", "backend", "write", "panic">>]
             ELSE [res |-> Ok, pk |-> c1.b, sk |-> c2.b,
                   be |-> 1, ev |-> <<"check", "backend", "write", "write">>]

\* Hqc128/192/256::keypair: asserts the backend lengths fit, copies them
KeypairChecked(L, kp, pkb, skb) ==
    IF BLen(pkb) < L.pk \/ BLen(skb) < L.sk
    THEN [res |-> Err("InvalidInput"), pk |-> pkb, sk |-> skb,
          be |-> 0, ev |-> <<"reject">>]
    ELSE IF ~(kp.pk.n <= BLen(pkb))
    THEN [res |-> Panic("Public key buffer too small"), pk |-> pkb, sk |-> skb,
          be |-> 1, ev |-> <<"check", "backend", "panic">>]
    ELSE IF ~(kp.sk.n <= BLen(skb))
    THEN [res |-> Panic("Secret key buffer too small"), pk |-> pkb, sk |-> skb,
          be |-> 1, ev |-> <<"check", "backend", "panic">>]
    ELSE [res |-> Ok, pk |-> WritePrefix(pkb, Enc(kp.pk)),
          sk |-> WritePrefix(skb, Enc(kp.sk)),
          be |-> 1, ev |-> <<"check", "backend", "write", "write">>]

\* <Kem variant>::keypair(pk, sk), the backend drawing key pair k
KemKeypair(a, pkb, skb, k) ==
    IF a \in HqcVariants
    THEN KeypairChecked(PqnostdKem[a], BackendKeypair(a, k, BackendKem(a)), pkb, skb)
    ELSE KeypairFixed(PqnostdKem[a], BackendKeypair(a, k, BackendKem(a)), pkb, skb)

\* MlKem512::encapsulate: asserts the backend lengths fit, copies them
EncapsulateChecked(a, ctb, ssb, pkb, r) ==
    LET L  == PqnostdKem[a]
        d  == FromBytes(pkb, "pk", a, BackendKem(a).pk)
        e  == BackendEncapsulate(d.v, r, BackendKem(a))
    IN  IF BLen(ctb) < L.ct \/ BLen(ssb) < L.ss \/ BLen(pkb) < L.pk
        THEN [res |-> Err("InvalidInput"), ct |-> ctb, ss |-> ssb,
              be |-> 0, ev |-> <<"reject">>]
        ELSE IF ~d.ok
        THEN [res |-> Err("InvalidInput"), ct |-> ctb, ss |-> ssb,
              be |-> 1, ev |-> <<"check", "decode">>]
        ELSE IF ~(e.ct.n <= BLen(ctb))
        THEN [res |-> Panic("Ciphertext buffer too small"), ct |-> ctb, ss |-> ssb,
              be |-> 2, ev |-> <<"check", "decode", "backend", "panic">>]
        ELSE IF ~(e.ss.n <= BLen(ssb))
        THEN [res |-> Panic("Shared secret buffer too small"), ct |-> ctb, ss |-> ssb,
              be |-> 2, ev |-> <<"check", "decode", "backend", "panic">>]
        ELSE [res |-> Ok, ct |-> WritePrefix(ctb, Enc(e.ct)),
              ss |-> WritePrefix(ssb, Enc(e.ss)),
              be |-> 2, ev |-> <<"check", "decode", "backend", "write", "write">>]

\* MlKem768/1024, Hqc128/192/256::encapsulate: copies CIPHERTEXT_LEN and
\* SHARED_SECRET_LEN bytes
EncapsulateFixed(a, ctb, ssb, pkb, r) ==
    LET L  == PqnostdKem[a]
        d  == FromBytes(pkb, "pk", a, BackendKem(a).pk)
        e  == BackendEncapsulate(d.v, r, BackendKem(a))
        c1 == CopyFixed(ctb, L.ct, Enc(e.ct))
        c2 == CopyFixed(ssb, L.ss, Enc(e.ss))
    IN  IF BLen(ctb) < L.ct \/ BLen(ssb) < L.ss \/ BLen(pkb) < L.pk
        THEN [res |-> Err("InvalidInput"), ct |-> ctb, ss |-> ssb,
              be |-> 0, ev |-> <<"reject">>]
        ELSE IF ~d.ok
        THEN [res |-> Err("InvalidInput"), ct |-> ctb, ss |-> ssb,
              be |-> 1, ev |-> <<"check", "decode">>]
        ELSE IF ~c1.ok
        THEN [res |-> Panic("copy_from_slice"), ct |-> ctb, ss |-> ssb,
              be |-> 2, ev |-> <<"check", "decode", "backend", "panic">>]
        ELSE IF ~c2.ok
        THEN [res |-> Panic("copy_from_slice"), ct |-> c1.b, ss |-> ssb,
              be |-> 2, ev |-> <<"check", "decode", "backend", "write", "panic">>]
        ELSE [res |-> Ok, ct |-> c1.b, ss |-> c2.b,
              be |-> 2, ev |-> <<"check", "decode", "backend", "write", "write">>]

\* <Kem variant>::encapsulate(ct, ss, pk), the backend drawing coins r
KemEncapsulate(a, ctb, ssb, pkb, r) ==
    IF a = "MlKem512"
    THEN EncapsulateChecked(a, ctb, ssb, pkb, r)
    ELSE EncapsulateFixed(a, ctb, ssb, pkb, r)

\* MlKem512::decapsulate: asserts the backend length fits, copies it
DecapsulateChecked(a, ssb, ctb, skb) ==
    LET L  == PqnostdKem[a]
        ds == FromBytes(skb, "sk", a, BackendKem(a).sk)
        dc == FromBytes(ctb, "ct", a, BackendKem(a).ct)
        s  == BackendDecapsulate(dc.v, ds.v, BackendKem(a))
    IN  IF BLen(ssb) < L.ss \/ BLen(ctb) < L.ct \/ BLen(skb) < L.sk
        THEN [res |-> Err("InvalidInput"), ss |-> ssb, be |-> 0, ev |-> <<"reject">>]
        ELSE IF ~ds.ok
        THEN [res |-> Err("InvalidInput"), ss |-> ssb, be |-> 1,
              ev |-> <<"check", "decode">>]
        ELSE IF ~dc.ok
        THEN [res |-> Err("InvalidInput"), ss |-> ssb, be |-> 2,
              ev |-> <<"check", "decode", "decode">>]
        ELSE IF ~(s.n <= BLen(ssb))
        THEN [res |-> Panic("Shared secret buffer too small"), ss |-> ssb, be |-> 3,
              ev |-> <<"check", "decode", "decode", "backend", "panic">>]
        ELSE [res |-> Ok, ss |-> WritePrefix(ssb, Enc(s)), be |-> 3,
              ev |-> <<"check", "decode", "decode", "backend", "write">>]

\* MlKem768/1024, Hqc128/192/256::decapsulate: copies SHARED_SECRET_LEN bytes
DecapsulateFixed(a, ssb, ctb, skb) ==
    LET L  == PqnostdKem[a]
        ds == FromBytes(skb, "sk", a, BackendKem(a).sk)
        dc == FromBytes(ctb, "ct", a, BackendKem(a).ct)
        s  == BackendDecapsulate(dc.v, ds.v, BackendKem(a))
        c  == CopyFixed(ssb, L.ss, Enc(s))
    IN  IF BLen(ssb) < L.ss \/ BLen(ctb) < L.ct \/ BLen(skb) < L.sk
        THEN [res |-> Err("InvalidInput"), ss |-> ssb, be |-> 0, ev |-> <<"reject">>]
        ELSE IF ~ds.ok
        THEN [res |-> Err("InvalidInput"), ss |-> ssb, be |-> 1,
              ev |-> <<"check", "decode">>]
        ELSE IF ~dc.ok
        THEN [res |-> Err("InvalidInput"), ss |-> ssb, be |-> 2,
              ev |-> <<"check", "decode", "decode">>]
        ELSE IF ~c.ok
        THEN [res |-> Panic("copy_from_slice"), ss |-> ssb, be |-> 3,
              ev |-> <<"check", "decode", "decode", "backend", "panic">>]
        ELSE [res |-> Ok, ss |-> c.b, be |-> 3,
              ev |-> <<"check", "decode", "decode", "backend", "write">>]

\* <Kem variant>::decapsulate(ss, ct, sk)
KemDecapsulate(a, ssb, ctb, skb) ==
    IF a = "MlKem512"
    THEN DecapsulateChecked(a, ssb, ctb, skb)
    ELSE DecapsulateFixed(a, ssb, ctb, skb)

(* -------------------- pqnostd: signature facades ---------------------- *)

StubVerifyVariants == {"MlDsa44", "Falcon512", "Falcon1024"}

\* <Sign variant>::keypair(pk, sk), the backend drawing key pair k
SignKeypair(a, pkb, skb, k) ==
    KeypairFixed(PqnostdSign[a], BackendKeypair(a, k, BackendSign(a)), pkb, skb)

\* a sign that reports the maximum signature length instead of the length
\* the backend encoded
SignReportingMax(a, sigb, m, skb, n) ==
    LET L  == PqnostdSign[a]
        d  == FromBytes(skb, "sk", a, BackendSign(a).sk)
        sm == BackendSignMsg(m, d.v, n)
        sig_len == BLen(Enc(sm))
    IN  IF BLen(sigb) < L.sig \/ BLen(skb) < L.sk
        THEN [res |-> Err("InvalidInput"), sig |-> sigb, be |-> 0, ev |-> <<"reject">>]
        ELSE IF ~d.ok
        THEN [res |-> Err("InvalidInput"), sig |-> sigb, be |-> 1,
              ev |-> <<"check", "decode">>]
        ELSE IF sig_len <= L.sig
        THEN [res |-> OkLen(L.sig), sig |-> WritePrefix(sigb, Enc(sm)), be |-> 2,
              ev |-> <<"check", "decode", "backend", "write">>]
        ELSE [res |-> Err("OperationFailed"), sig |-> sigb, be |-> 2,
              ev |-> <<"check", "decode", "backend">>]

\* a sign that clears the signature buffer before it reports an encoding
\* that does not fit
SignClearingOnFailure(a, sigb, m, skb, n) ==
    LET L  == PqnostdSign[a]
        d  == FromBytes(skb, "sk", a, BackendSign(a).sk)
        sm == BackendSignMsg(m, d.v, n)
        sig_len == BLen(Enc(sm))
    IN  IF BLen(sigb) < L.sig \/ BLen(skb) < L.sk
        THEN [res |-> Err("InvalidInput"), sig |-> sigb, be |-> 0, ev |-> <<"reject">>]
        ELSE IF ~d.ok
        THEN [res |-> Err("InvalidInput"), sig |-> sigb, be |-> 1,
              ev |-> <<"check", "decode">>]
        ELSE IF sig_len <= L.sig
        THEN [res |-> OkLen(sig_len), sig |-> WritePrefix(sigb, Enc(sm)), be |-> 2,
              ev |-> <<"check", "decode", "backend", "write">>]
        ELSE [res |-> Err("OperationFailed"), sig |-> ZeroBuf(BLen(sigb)), be |-> 2,
              ev |-> <<"check", "decode", "backend", "write">>]

\* <Sign variant>::sign(sig, msg, sk), the backend encoding n bytes
Sign(a, sigb, m, skb, n) ==
    LET L  == PqnostdSign[a]
        d  == FromBytes(skb, "sk", a, BackendSign(a).sk)
        sm == BackendSignMsg(m, d.v, n)
        sig_len == BLen(Enc(sm))
    IN  IF BLen(sigb) < L.sig \/ BLen(skb) < L.sk
        THEN [res |-> Err("InvalidInput"), sig |-> sigb, be |-> 0, ev |-> <<"reject">>]
        ELSE IF ~d.ok
        THEN [res |-> Err("InvalidInput"), sig |-> sigb, be |-> 1,
              ev |-> <<"check", "decode">>]
        ELSE IF sig_len <= L.sig
        THEN [res |-> OkLen(sig_len), sig |-> WritePrefix(sigb, Enc(sm)), be |-> 2,
              ev |-> <<"check", "decode", "backend", "write">>]
        ELSE [res |-> Err("OperationFailed"), sig |-> sigb, be |-> 2,
              ev |-> <<"check", "decode", "backend">>]

\* MlDsa44 / Falcon512 / Falcon1024::verify: validates the buffers only
VerifyStub(a, sigb, m, pkb) ==
    IF BLen(pkb) < PqnostdSign[a].pk \/ BLen(sigb) = 0
    THEN [res |-> Err("InvalidInput"), be |-> 0, ev |-> <<"reject">>]
    ELSE [res |-> OkBool(TRUE), be |-> 0, ev |-> <<"check">>]

\* MlDsa65 / MlDsa87::verify: decodes the key and the signed message, opens
\* it (SignedMessage::from_bytes takes any length)
VerifyOpen(a, sigb, m, pkb) ==
    LET d  == FromBytes(pkb, "pk", a, BackendSign(a).pk)
        sm == FromBytes(sigb, "sm", a, BLen(sigb))
    IN  IF BLen(pkb) < PqnostdSign[a].pk
        THEN [res |-> Err("InvalidInput"), be |-> 0, ev |-> <<"reject">>]
        ELSE IF ~d.ok
        THEN [res |-> Err("InvalidInput"), be |-> 1, ev |-> <<"check", "decode">>]
        ELSE IF ~sm.ok
        THEN [res |-> Err("InvalidInput"), be |-> 2,
              ev |-> <<"check", "decode", "decode">>]
        ELSE [res |-> OkBool(BackendOpen(sm.v, d.v)), be |-> 3,
              ev |-> <<"check", "decode", "decode", "backend">>]

\* <Sign variant>::verify(sig, msg, pk)
Verify(a, sigb, m, pkb) ==
    IF a \in StubVerifyVariants
    THEN VerifyStub(a, sigb, m, pkb)
    ELSE VerifyOpen(a, sigb, m, pkb)

(* ----------------- pqnostd: PqcInterface dispatcher -------------------- *)

\* one arm of mlkem_keygen / mldsa_keygen: its own length test against the
\* named variant's constants, the backend key generation, the two copies
KeygenArm(L, kp, pkb, skb) ==
    IF BLen(pkb) < L.pk \/ BLen(skb) < L.sk
    THEN [res |-> Err("InvalidInput"), pk |-> pkb, sk |-> skb,
          be |-> 0, ev |-> <<"reject">>]
    ELSE LET c1 == CopyFixed(pkb, L.pk, Enc(kp.pk))
             c2 == CopyFixed(skb, L.sk, Enc(kp.sk))
         IN  IF ~c1.ok
             THEN [res |-> Panic("copy_from_slice"), pk |-> pkb, sk |-> skb,
                   be |-> 1, ev |-> <<"check", "backend", "panic">>]
             ELSE IF ~c2.ok
             THEN [res |-> Panic("copy_from_slice"), pk |-> c1.b, sk |-> skb,
                   be |-> 1, ev |-> <<"check", "backend", "write", "panic">>]
             ELSE [res |-> Ok, pk |-> c1.b, sk |-> c2.b,
                   be |-> 1, ev |-> <<"check", "backend", "write", "write">>]

\* a default arm that reports the unknown name as a bad input and clears the
\* key buffers
UnsupportedClearing(pkb, skb) ==
    [res |-> Err("InvalidInput"), pk |-> ZeroBuf(BLen(pkb)), sk |-> ZeroBuf(BLen(skb)),
     be |-> 0, ev |-> <<>>]

\* the `_ =>` arm of mlkem_keygen / mldsa_keygen
Unsupported(pkb, skb) ==
    [res |-> Err("UnsupportedAlgorithm"), pk |-> pkb, sk |-> skb,
     be |-> 0, ev |-> <<>>]

\* an mlkem_keygen whose arms all use the ML-KEM-512 constants
mlkem_keygen_one_size(algorithm, pkb, skb, k) ==
    CASE algorithm = "mlkem512" ->
            KeygenArm(PqnostdKem.MlKem512,
                      BackendKeypair("MlKem512", k, BackendKem("MlKem512")), pkb, skb)
      [] algorithm = "mlkem768" ->
            KeygenArm(PqnostdKem.MlKem512,
                      BackendKeypair("MlKem768", k, BackendKem("MlKem768")), pkb, skb)
      [] algorithm = "mlkem1024" ->
            KeygenArm(PqnostdKem.MlKem512,
                      BackendKeypair("MlKem1024", k, BackendKem("MlKem1024")), pkb, skb)
      [] OTHER -> Unsupported(pkb, skb)

\* PqcInterface::mlkem_keygen(algorithm, pk, sk)
mlkem_keygen(algorithm, pkb, skb, k) ==
    CASE algorithm = "mlkem512" ->
            KeygenArm(PqnostdKem.MlKem512,
                      BackendKeypair("MlKem512", k, BackendKem("MlKem512")), pkb, skb)
      [] algorithm = "mlkem768" ->
            KeygenArm(PqnostdKem.MlKem768,
                      BackendKeypair("MlKem768", k, BackendKem("MlKem768")), pkb, skb)
      [] algorithm = "mlkem1024" ->
            KeygenArm(PqnostdKem.MlKem1024,
                      BackendKeypair("MlKem1024", k, BackendKem("MlKem1024")), pkb, skb)
      [] OTHER -> Unsupported(pkb, skb)

\* PqcInterface::mldsa_keygen(algorithm, pk, sk)
mldsa_keygen(algorithm, pkb, skb, k) ==
    CASE algorithm = "mldsa44" ->
            KeygenArm(PqnostdSign.MlDsa44,
                      BackendKeypair("MlDsa44", k, BackendSign("MlDsa44")), pkb, skb)
      [] algorithm = "mldsa65" ->
            KeygenArm(PqnostdSign.MlDsa65,
                      BackendKeypair("MlDsa65", k, BackendSign("MlDsa65")), pkb, skb)
      [] algorithm = "mldsa87" ->
            KeygenArm(PqnostdSign.MlDsa87,
                      BackendKeypair("MlDsa87", k, BackendSign("MlDsa87")), pkb, skb)
      [] OTHER -> Unsupported(pkb, skb)

(* --------------- pqno_std: randomness capability ---------------------- *)

\* the RngCore implementations of the crate, and one supplied by the caller
RngSources == {"HardwareRng", "Esp32Rng", "ChaChaRng", "Caller"}

\* what a caller's own source may answer: a seed, or RngFailure
CallerOutcomes == [ok : {TRUE}, seed : KeyIds] \cup {[ok |-> FALSE, seed |-> 0]}

\* RngCore::fill_bytes of each source
fill_bytes(src, o) ==
    CASE src = "HardwareRng" -> [res |-> Err("HardwareAccelUnavailable"), seed |-> 0]
      [] src = "Esp32Rng"    -> [res |-> Err("HardwareAccelUnavailable"), seed |-> 0]
      [] src = "ChaChaRng"   -> [res |-> Panic("not yet implemented"), seed |-> 0]
      [] OTHER -> IF o.ok THEN [res |-> Ok, seed |-> o.seed]
                  ELSE [res |-> Err("RngFailure"), seed |-> 0]

(* ---------------- pqno_std: ML-KEM-512 facade and stubs --------------- *)

\* what the C backend reads through a raw pointer of a validated length
RawObj(b, t, a, n) ==
    IF Holds(b, t) /\ b[1].v.alg = a THEN b[1].v ELSE Obj(t, a, 0, 0, n)

\* pqno_std MlKem512::keypair(public_key, secret_key, rng)
NoStdKeypair(pkb, skb, src, o) ==
    LET L  == PqNoStdKem.MlKem512
        f  == fill_bytes(src, o)
        kp == BackendKeypair("MlKem512", f.seed, L)
    IN  IF BLen(pkb) # L.pk
        THEN [res |-> Err("BufferTooSmall"), pk |-> pkb, sk |-> skb,
              rng |-> 0, be |-> 0, ev |-> <<"reject">>]
        ELSE IF BLen(skb) # L.sk
        THEN [res |-> Err("BufferTooSmall"), pk |-> pkb, sk |-> skb,
              rng |-> 0, be |-> 0, ev |-> <<"check", "reject">>]
        ELSE IF f.res.tag # "Ok"
        THEN [res |-> f.res, pk |-> pkb, sk |-> skb,
              rng |-> 1, be |-> 0, ev |-> <<"check", "check", "rng">>]
        ELSE [res |-> Ok, pk |-> WritePrefix(pkb, Enc(kp.pk)),
              sk |-> WritePrefix(skb, Enc(kp.sk)),
              rng |-> 1, be |-> 1,
              ev |-> <<"check", "check", "rng", "backend", "write", "write">>]

\* an encapsulate that validates its input, the public key, before its
\* output buffers
NoStdEncapsulateKeyFirst(ctb, ssb, pkb, src, o) ==
    LET L == PqNoStdKem.MlKem512
        f == fill_bytes(src, o)
        e == BackendEncapsulate(RawObj(pkb, "pk", "MlKem512", L.pk), f.seed, L)
    IN  IF BLen(pkb) # L.pk
        THEN [res |-> Err("InvalidInput"), ct |-> ctb, ss |-> ssb,
              rng |-> 0, be |-> 0, ev |-> <<"reject">>]
        ELSE IF BLen(ctb) # L.ct
        THEN [res |-> Err("BufferTooSmall"), ct |-> ctb, ss |-> ssb,
              rng |-> 0, be |-> 0, ev |-> <<"check", "reject">>]
        ELSE IF BLen(ssb) # L.ss
        THEN [res |-> Err("BufferTooSmall"), ct |-> ctb, ss |-> ssb,
              rng |-> 0, be |-> 0, ev |-> <<"check", "check", "reject">>]
        ELSE IF f.res.tag # "Ok"
        THEN [res |-> f.res, ct |-> ctb, ss |-> ssb,
              rng |-> 1, be |-> 0, ev |-> <<"check", "check", "check", "rng">>]
        ELSE [res |-> Ok, ct |-> WritePrefix(ctb, Enc(e.ct)),
              ss |-> WritePrefix(ssb, Enc(e.ss)),
              rng |-> 1, be |-> 1,
              ev |-> <<"check", "check", "check", "rng", "backend", "write", "write">>]

\* pqno_std MlKem512::encapsulate(ciphertext, shared_secret, public_key, rng)
NoStdEncapsulate(ctb, ssb, pkb, src, o) ==
    LET L == PqNoStdKem.MlKem512
        f == fill_bytes(src, o)
        e == BackendEncapsulate(RawObj(pkb, "pk", "MlKem512", L.pk), f.seed, L)
    IN  IF BLen(ctb) # L.ct
        THEN [res |-> Err("BufferTooSmall"), ct |-> ctb, ss |-> ssb,
              rng |-> 0, be |-> 0, ev |-> <<"reject">>]
        ELSE IF BLen(ssb) # L.ss
        THEN [res |-> Err("BufferTooSmall"), ct |-> ctb, ss |-> ssb,
              rng |-> 0, be |-> 0, ev |-> <<"check", "reject">>]
        ELSE IF BLen(pkb) # L.pk
        THEN [res |-> Err("InvalidInput"), ct |-> ctb, ss |-> ssb,
              rng |-> 0, be |-> 0, ev |-> <<"check", "check", "reject">>]
        ELSE IF f.res.tag # "Ok"
        THEN [res |-> f.res, ct |-> ctb, ss |-> ssb,
              rng |-> 1, be |-> 0, ev |-> <<"check", "check", "check", "rng">>]
        ELSE [res |-> Ok, ct |-> WritePrefix(ctb, Enc(e.ct)),
              ss |-> WritePrefix(ssb, Enc(e.ss)),
              rng |-> 1, be |-> 1,
              ev |-> <<"check", "check", "check", "rng", "backend", "write", "write">>]

\* pqno_std MlKem512::decapsulate(shared_secret, ciphertext, secret_key)
NoStdDecapsulate(ssb, ctb, skb) ==
    LET L == PqNoStdKem.MlKem512
        s == BackendDecapsulate(RawObj(ctb, "ct", "MlKem512", L.ct),
                                RawObj(skb, "sk", "MlKem512", L.sk), L)
    IN  IF BLen(ssb) # L.ss
        THEN [res |-> Err("BufferTooSmall"), ss |-> ssb,
              rng |-> 0, be |-> 0, ev |-> <<"reject">>]
        ELSE IF BLen(ctb) # L.ct
        THEN [res |-> Err("InvalidInput"), ss |-> ssb,
              rng |-> 0, be |-> 0, ev |-> <<"check", "reject">>]
        ELSE IF BLen(skb) # L.sk
        THEN [res |-> Err("InvalidInput"), ss |-> ssb,
              rng |-> 0, be |-> 0, ev |-> <<"check", "check", "reject">>]
        ELSE [res |-> Ok, ss |-> WritePrefix(ssb, Enc(s)),
              rng |-> 0, be |-> 1,
              ev |-> <<"check", "check", "check", "backend", "write">>]

\* pqno_std MlKem768 / MlKem1024 / HqcKem128: every operation is a placeholder
NoStdPlaceholder == Err("UnsupportedOperation")

\* pqno_std <variant>::keypair
NoStdKemKeypair(a, pkb, skb, src, o) ==
    IF a = "MlKem512" THEN NoStdKeypair(pkb, skb, src, o)
    ELSE [res |-> NoStdPlaceholder, pk |-> pkb, sk |-> skb,
          rng |-> 0, be |-> 0, ev |-> <<>>]

\* pqno_std <variant>::encapsulate
NoStdKemEncapsulate(a, ctb, ssb, pkb, src, o) ==
    IF a = "MlKem512" THEN NoStdEncapsulate(ctb, ssb, pkb, src, o)
    ELSE [res |-> NoStdPlaceholder, ct |-> ctb, ss |-> ssb,
          rng |-> 0, be |-> 0, ev |-> <<>>]

\* pqno_std <variant>::decapsulate
NoStdKemDecapsulate(a, ssb, ctb, skb) ==
    IF a = "MlKem512" THEN NoStdDecapsulate(ssb, ctb, skb)
    ELSE [res |-> NoStdPlaceholder, ss |-> ssb,
          rng |-> 0, be |-> 0, ev |-> <<>>]

(* ------------------ pallet: placeholder PqcInterface ------------------ *)

\* per family: the names its functions match, the lengths of the arrays
\* they return for every matched name, and their error
PalletFamilies ==
    [mlkem  |-> [names |-> {"mlkem512", "mlkem768", "mlkem1024"},
                 sk |-> 1632, pk |-> 800, ss |-> 32, ct |-> 768, sig |-> 0,
                 err |-> "Unsupported ML-KEM algorithm"],
     mldsa  |-> [names |-> {"mldsa44", "mldsa65", "mldsa87"},
                 sk |-> 2560, pk |-> 1312, ss |-> 0, ct |-> 0, sig |-> 2420,
                 err |-> "Unsupported ML-DSA algorithm"],
     hqc    |-> [names |-> {"hqc128", "hqc192", "hqc256"},
                 sk |-> 57, pk |-> 2249, ss |-> 32, ct |-> 4481, sig |-> 0,
                 err |-> "Unsupported HQC-KEM algorithm"],
     falcon |-> [names |-> {"falcon512", "falcon1024"},
                 sk |-> 1281, pk |-> 897, ss |-> 0, ct |-> 0, sig |-> 666,
                 err |-> "Unsupported Falcon algorithm"]]

KemFamilies == {"mlkem", "hqc"}

SignFamilies == {"mldsa", "falcon"}

\* PqcInterface::{mlkem,mldsa,hqc,falcon}_keygen(algorithm)
pallet_keygen(fam, algorithm) ==
    LET F == PalletFamilies[fam]
    IN  IF algorithm \in F.names
        THEN [res |-> Ok, sk |-> ZeroBuf(F.sk), pk |-> ZeroBuf(F.pk)]
        ELSE [res |-> Err(F.err), sk |-> <<>>, pk |-> <<>>]

\* PqcInterface::{mlkem,hqc}_encapsulate(algorithm, public_key)
pallet_encapsulate(fam, algorithm, pkb) ==
    LET F == PalletFamilies[fam]
    IN  IF algorithm \in F.names
        THEN [res |-> Ok, ss |-> ZeroBuf(F.ss), ct |-> ZeroBuf(F.ct)]
        ELSE [res |-> Err(F.err), ss |-> <<>>, ct |-> <<>>]

\* PqcInterface::{mlkem,hqc}_decapsulate(algorithm, secret_key, ciphertext)
pallet_decapsulate(fam, algorithm, skb, ctb) ==
    LET F == PalletFamilies[fam]
    IN  IF algorithm \in F.names
        THEN [res |-> Ok, ss |-> ZeroBuf(F.ss)]
        ELSE [res |-> Err(F.err), ss |-> <<>>]

\* PqcInterface::{mldsa,falcon}_sign(algorithm, secret_key, message)
pallet_sign(fam, algorithm, skb, m) ==
    LET F == PalletFamilies[fam]
    IN  IF algorithm \in F.names
        THEN [res |-> Ok, sig |-> ZeroBuf(F.sig)]
        ELSE [res |-> Err(F.err), sig |-> <<>>]

\* PqcInterface::{mldsa,falcon}_verify(algorithm, public_key, message, signature)
pallet_verify(fam, algorithm, pkb, m, sigb) ==
    LET F == PalletFamilies[fam]
    IN  IF algorithm \in F.names
        THEN [res |-> OkBool(TRUE)]
        ELSE [res |-> Err(F.err)]

(* --------------------------- the callers ------------------------------ *)

\* algorithm names a caller hands to a dispatcher
Names ==
    {"mlkem512", "mlkem768", "mlkem1024", "mldsa44", "mldsa65", "mldsa87",
     "hqc128", "hqc192", "hqc256", "falcon512", "falcon1024", "", "MLKEM512"}

\* lengths a caller gives a buffer whose descriptor length is n
LenChoices(n) == {n - Slack, n, n + Slack}

\* the record of the last call: the operation, the variant or algorithm
\* name, its result, the fill_bytes and backend calls it made and their
\* order, the randomness source, the message, the key the backend drew
NoCall ==
    [crate |-> "", op |-> "init", name |-> "", res |-> Ok, rng |-> 0, be |-> 0,
     ev |-> <<>>, src |-> "", msg |-> 0, gen |-> 0,
     arg |-> "", num |-> 0, conv |-> ConvErr]

Call(op, name, r) ==
    [NoCall EXCEPT !.crate = alg.crate, !.op = op, !.name = name,
                   !.res = r.res, !.be = r.be, !.ev = r.ev]

\* a caller works with one crate, through its typed facade of one variant or
\* through its string-keyed PqcInterface, on buffers sized for one variant
\* (pallet: with the functions of one family)
Sessions ==
    [crate : {"pqnostd"}, api : {"typed", "dispatch"},
     variant : KemVariants \cup SignVariants]
    \cup [crate : {"pqno_std"}, api : {"typed"}, variant : NoStdVariants]
    \cup [crate : {"pallet"}, api : {"dispatch"}, variant : DOMAIN PalletFamilies]

IsKemSession ==
    alg.crate = "pqnostd" /\ alg.api = "typed" /\ alg.variant \in KemVariants

IsSignSession ==
    alg.crate = "pqnostd" /\ alg.api = "typed" /\ alg.variant \in SignVariants

IsDispatchSession == alg.crate = "pqnostd" /\ alg.api = "dispatch"

IsNoStdSession == alg.crate = "pqno_std" /\ alg.variant \in NoStdVariants

IsPalletSession == alg.crate = "pallet"

\* the descriptor the caller sizes its buffers by (a dispatcher session has
\* key buffers only: PqcInterface generates keys)
Desc(s) ==
    CASE s.crate = "pqnostd" /\ s.api = "dispatch" /\ s.variant \in KemVariants ->
            [pk |-> PqnostdKem[s.variant].pk, sk |-> PqnostdKem[s.variant].sk,
             ct |-> 0, ss |-> 0, sig |-> 0]
      [] s.crate = "pqnostd" /\ s.api = "dispatch" /\ s.variant \in SignVariants ->
            [pk |-> PqnostdSign[s.variant].pk, sk |-> PqnostdSign[s.variant].sk,
             ct |-> 0, ss |-> 0, sig |-> 0]
      [] s.crate = "pqnostd" /\ s.variant \in KemVariants ->
            PqnostdKem[s.variant] @@ [sig |-> 0]
      [] s.crate = "pqnostd" /\ s.variant \in SignVariants ->
            PqnostdSign[s.variant] @@ [ct |-> 0, ss |-> 0]
      [] s.crate = "pqno_std" /\ s.variant \in NoStdVariants ->
            PqNoStdKem[s.variant] @@ [sig |-> 0]
      [] OTHER -> [pk |-> 0, sk |-> 0, ct |-> 0, ss |-> 0, sig |-> 0]

\* the KAT verifier is not running
NoKat == [pc |-> "off"]

\* no execution context is inside get_rng
NoCtx == [pc |-> <<>>]

\* get_rng's function-local statics HW_RNG and ESP_RNG (an Option as a
\* sequence of at most one instance), and the number of instances built
NoStatics == [HW_RNG |-> <<>>, ESP_RNG |-> <<>>, built |-> 0]

\* zero-filled buffers around the descriptor length; none where it has none
Fresh(n) == IF n = 0 THEN {<<>>} ELSE {ZeroBuf(l) : l \in LenChoices(n)}

Init ==
    /\ alg \in Sessions
    /\ pk \in Fresh(Desc(alg).pk)
    /\ sk \in Fresh(Desc(alg).sk)
    /\ ct \in Fresh(Desc(alg).ct)
    /\ ss \in Fresh(Desc(alg).ss)
    /\ ss2 = ZeroBuf(BLen(ss))
    /\ sig \in Fresh(Desc(alg).sig) \cup {<<>>}
    /\ last = NoCall
    /\ ncalls = 0
    /\ statics = NoStatics
    /\ kat = NoKat
    /\ ctx = NoCtx

Step ==
    /\ ncalls < MaxCalls /\ ncalls' = ncalls + 1
    /\ alg' = alg /\ statics' = statics /\ kat' = kat /\ ctx' = ctx

(* pqnostd typed KEM facade *)

Keypair ==
    /\ IsKemSession /\ Step
    /\ \E k \in KeyIds :
         LET r == KemKeypair(alg.variant, pk, sk, k)
         IN  /\ pk' = r.pk /\ sk' = r.sk
             /\ last' = [Call("keypair", alg.variant, r) EXCEPT !.gen = k]
    /\ UNCHANGED <<ct, ss, ss2, sig>>

Encapsulate ==
    /\ IsKemSession /\ Step
    /\ \E c \in KeyIds :
         LET r == KemEncapsulate(alg.variant, ct, ss, pk, c)
         IN  /\ ct' = r.ct /\ ss' = r.ss
             /\ last' = [Call("encapsulate", alg.variant, r) EXCEPT !.gen = c]
    /\ UNCHANGED <<pk, sk, ss2, sig>>

Decapsulate ==
    /\ IsKemSession /\ Step
    /\ LET r == KemDecapsulate(alg.variant, ss2, ct, sk)
       IN  /\ ss2' = r.ss
           /\ last' = Call("decapsulate", alg.variant, r)
    /\ UNCHANGED <<pk, sk, ct, ss, sig>>

(* pqnostd typed signature facade *)

SigKeypair ==
    /\ IsSignSession /\ Step
    /\ \E k \in KeyIds :
         LET r == SignKeypair(alg.variant, pk, sk, k)
         IN  /\ pk' = r.pk /\ sk' = r.sk
             /\ last' = [Call("keypair", alg.variant, r) EXCEPT !.gen = k]
    /\ UNCHANGED <<ct, ss, ss2, sig>>

SigSign ==
    /\ IsSignSession /\ Step
    /\ \E m \in Msgs, n \in SignedLens(alg.variant) :
         LET r == Sign(alg.variant, sig, m, sk, n)
         IN  /\ sig' = r.sig
             /\ last' = [Call("sign", alg.variant, r) EXCEPT !.msg = m, !.num = n]
    /\ UNCHANGED <<pk, sk, ct, ss, ss2>>

\* &sig[..n] for the length n a sign call returned, when the buffer starts
\* with a signed message
SignedPrefix(b) ==
    IF b # <<>> /\ Holds(<<b[1]>>, "sm") THEN <<b[1]>> ELSE b

\* the caller verifies the whole signature buffer or the signed prefix
SigVerify ==
    /\ IsSignSession /\ Step
    /\ \E m \in Msgs, s \in {sig, SignedPrefix(sig)} :
         LET r == Verify(alg.variant, s, m, pk)
         IN  last' = [Call("verify", alg.variant, r) EXCEPT
                        !.msg = m, !.num = BLen(s)]
    /\ UNCHANGED bufs

(* pqnostd dispatcher *)

DispMlkemKeygen ==
    /\ IsDispatchSession /\ Step
    /\ \E name \in Names, k \in KeyIds :
         LET r == mlkem_keygen(name, pk, sk, k)
         IN  /\ pk' = r.pk /\ sk' = r.sk
             /\ last' = [Call("mlkem_keygen", name, r) EXCEPT !.gen = k]
    /\ UNCHANGED <<ct, ss, ss2, sig>>

DispMldsaKeygen ==
    /\ IsDispatchSession /\ Step
    /\ \E name \in Names, k \in KeyIds :
         LET r == mldsa_keygen(name, pk, sk, k)
         IN  /\ pk' = r.pk /\ sk' = r.sk
             /\ last' = [Call("mldsa_keygen", name, r) EXCEPT !.gen = k]
    /\ UNCHANGED <<ct, ss, ss2, sig>>

(* pqno_std typed KEM facade, with an injected randomness source *)

RngInputs == {<<src, o>> : src \in RngSources \ {"Caller"}, o \in {[ok |-> FALSE, seed |-> 0]}}
             \cup {<<"Caller", o>> : o \in CallerOutcomes}

NsKeypair ==
    /\ IsNoStdSession /\ Step
    /\ \E i \in RngInputs :
         LET r == NoStdKemKeypair(alg.variant, pk, sk, i[1], i[2])
         IN  /\ pk' = r.pk /\ sk' = r.sk
             /\ last' = [Call("keypair", alg.variant, r) EXCEPT
                           !.rng = r.rng, !.src = i[1], !.gen = i[2].seed]
    /\ UNCHANGED <<ct, ss, ss2, sig>>

NsEncapsulate ==
    /\ IsNoStdSession /\ Step
    /\ \E i \in RngInputs :
         LET r == NoStdKemEncapsulate(alg.variant, ct, ss, pk, i[1], i[2])
         IN  /\ ct' = r.ct /\ ss' = r.ss
             /\ last' = [Call("encapsulate", alg.variant, r) EXCEPT
                           !.rng = r.rng, !.src = i[1], !.gen = i[2].seed]
    /\ UNCHANGED <<pk, sk, ss2, sig>>

NsDecapsulate ==
    /\ IsNoStdSession /\ Step
    /\ LET r == NoStdKemDecapsulate(alg.variant, ss2, ct, sk)
       IN  /\ ss2' = r.ss
           /\ last' = Call("decapsulate", alg.variant, r)
    /\ UNCHANGED <<pk, sk, ct, ss, sig>>

(* pallet dispatcher: the caller binds the arrays an Ok result returns *)

PalletBase(op, name, res) ==
    [NoCall EXCEPT !.crate = "pallet", !.op = op, !.name = name, !.res = res]

PalletKeygen ==
    /\ IsPalletSession /\ Step
    /\ \E name \in Names :
         LET r == pallet_keygen(alg.variant, name)
         IN  /\ pk' = IF r.res.tag = "Ok" THEN r.pk ELSE pk
             /\ sk' = IF r.res.tag = "Ok" THEN r.sk ELSE sk
             /\ last' = PalletBase("keygen", name, r.res)
    /\ UNCHANGED <<ct, ss, ss2, sig>>

PalletEncapsulate ==
    /\ IsPalletSession /\ alg.variant \in KemFamilies /\ Step
    /\ \E name \in Names :
         LET r == pallet_encapsulate(alg.variant, name, pk)
         IN  /\ ct' = IF r.res.tag = "Ok" THEN r.ct ELSE ct
             /\ ss' = IF r.res.tag = "Ok" THEN r.ss ELSE ss
             /\ last' = PalletBase("encapsulate", name, r.res)
    /\ UNCHANGED <<pk, sk, ss2, sig>>

PalletDecapsulate ==
    /\ IsPalletSession /\ alg.variant \in KemFamilies /\ Step
    /\ \E name \in Names :
         LET r == pallet_decapsulate(alg.variant, name, sk, ct)
         IN  /\ ss2' = IF r.res.tag = "Ok" THEN r.ss ELSE ss2
             /\ last' = PalletBase("decapsulate", name, r.res)
    /\ UNCHANGED <<pk, sk, ct, ss, sig>>

PalletSign ==
    /\ IsPalletSession /\ alg.variant \in SignFamilies /\ Step
    /\ \E name \in Names, m \in Msgs :
         LET r == pallet_sign(alg.variant, name, sk, m)
         IN  /\ sig' = IF r.res.tag = "Ok" THEN r.sig ELSE sig
             /\ last' = [PalletBase("sign", name, r.res) EXCEPT !.msg = m]
    /\ UNCHANGED <<pk, sk, ct, ss, ss2>>

PalletVerify ==
    /\ IsPalletSession /\ alg.variant \in SignFamilies /\ Step
    /\ \E name \in Names, m \in Msgs :
         LET r == pallet_verify(alg.variant, name, pk, m, sig)
         IN  last' = [PalletBase("verify", name, r.res) EXCEPT !.msg = m]
    /\ UNCHANGED bufs

Next ==
    \/ Keypair
    \/ Encapsulate
    \/ Decapsulate
    \/ SigKeypair
    \/ SigSign
    \/ SigVerify
    \/ DispMlkemKeygen
    \/ DispMldsaKeygen
    \/ NsKeypair
    \/ NsEncapsulate
    \/ NsDecapsulate
    \/ PalletKeygen
    \/ PalletEncapsulate
    \/ PalletDecapsulate
    \/ PalletSign
    \/ PalletVerify

Spec == Init /\ [][Next]_vars

(* ------------- the error taxonomy as a specification ----------------- *)

ErrorSession == [crate |-> "pqno_std", api |-> "typed", variant |-> "Error"]

InitErr ==
    /\ alg = ErrorSession
    /\ pk = <<>> /\ sk = <<>> /\ ct = <<>> /\ ss = <<>> /\ ss2 = <<>> /\ sig = <<>>
    /\ last = NoCall
    /\ ncalls = 0
    /\ statics = NoStatics
    /\ kat = NoKat
    /\ ctx = NoCtx

\* e.code()
ErrCode ==
    /\ \E e \in ErrorKinds :
         last' = [NoCall EXCEPT !.crate = "pqno_std", !.op = "code",
                                !.arg = e, !.num = code(e)]
    /\ UNCHANGED <<alg, pk, sk, ct, ss, ss2, sig, ncalls, statics, kat, ctx>>

\* Error::try_from(value) for any u8
ErrTryFrom ==
    /\ \E c \in U8 :
         last' = [NoCall EXCEPT !.crate = "pqno_std", !.op = "try_from",
                                !.num = c, !.conv = try_from(c)]
    /\ UNCHANGED <<alg, pk, sk, ct, ss, ss2, sig, ncalls, statics, kat, ctx>>

\* Error::try_from(e.code()) on the code just taken
ErrRoundTrip ==
    /\ last.op = "code"
    /\ last' = [last EXCEPT !.op = "round_trip", !.conv = try_from(last.num)]
    /\ UNCHANGED <<alg, pk, sk, ct, ss, ss2, sig, ncalls, statics, kat, ctx>>

NextErr ==
    \/ ErrCode
    \/ ErrTryFrom
    \/ ErrRoundTrip

SpecErr == InitErr /\ [][NextErr]_vars

(* ------------------------------ claims -------------------------------- *)

\* C1: every one of the eight error kinds has a code in 1..8 that no other
\* kind has, converting that code back yields the kind, and every u8 outside
\* 1..8 fails the conversion.
C1_ErrorCodeRoundTrip ==
    /\ last.op = "code" =>
         /\ last.num \in 1..8
         /\ \A e \in ErrorKinds \ {last.arg} : code(e) # last.num
    /\ last.op = "round_trip" => last.conv = [ok |-> TRUE, kind |-> last.arg]
    /\ (last.op = "try_from" /\ last.num \notin 1..8) => ~last.conv.ok

C1_Witness ==
    /\ last.op = "round_trip" /\ last.arg = "InternalError" /\ last.num = 8
    /\ last.conv.ok

(* what the claims below speak of *)

\* the descriptor of the session's variant
D == Desc(alg)

\* buffer b starts with one whole encoding of kind t
HoldsPrefix(b, t) == b # <<>> /\ Holds(<<b[1]>>, t)

\* a call c through a typed facade
IsFacadeCall(c) == alg.api = "typed" /\ c.crate \in {"pqnostd", "pqno_std"}

\* a call c through a typed key-encapsulation facade
IsKemCall(c) ==
    /\ IsFacadeCall(c)
    /\ alg.variant \in KemVariants \cup NoStdVariants
    /\ c.op \in {"keypair", "encapsulate", "decapsulate"}

\* the randomness source of call c delivered (pqnostd: the backend's own)
RngDelivered(c) == c.crate = "pqno_std" => (c.src = "Caller" /\ c.gen # 0)

\* an output buffer of operation op is shorter than the descriptor says
ShortOutput(op) ==
    CASE op = "keypair"     -> BLen(pk) < D.pk \/ BLen(sk) < D.sk
      [] op = "encapsulate" -> BLen(ct) < D.ct \/ BLen(ss) < D.ss
      [] op = "decapsulate" -> BLen(ss2) < D.ss
      [] op = "sign"        -> BLen(sig) < D.sig
      [] OTHER              -> FALSE

\* C2: in every facade operation of every variant, a call with an output
\* buffer shorter than the descriptor length returns BufferTooSmall, calls
\* no backend, draws no randomness and leaves the buffers as they were.
C2_BufferSizeGuard ==
    [][(IsFacadeCall(last') /\ ShortOutput(last'.op)) =>
          /\ last'.res = Err("BufferTooSmall")
          /\ last'.be = 0
          /\ last'.rng = 0
          /\ bufs' = bufs]_vars

\* C3: in every key-encapsulation variant, typed or through the dispatcher,
\* keypair, encapsulate on the public key and decapsulate on the ciphertext
\* and the secret key all succeed, and decapsulate yields the secret
\* encapsulate produced.
C3_KemRoundTrip ==
    /\ (/\ IsKemCall(last) /\ last.op = "keypair" /\ RngDelivered(last)
        /\ BLen(pk) = D.pk /\ BLen(sk) = D.sk)
       => /\ last.res = Ok
          /\ Holds(pk, "pk") /\ Holds(sk, "sk") /\ pk[1].v.k = sk[1].v.k
    /\ (/\ IsKemCall(last) /\ last.op = "encapsulate" /\ RngDelivered(last)
        /\ Holds(pk, "pk") /\ pk[1].v.k # 0
        /\ BLen(ct) = D.ct /\ BLen(ss) = D.ss)
       => /\ last.res = Ok
          /\ Holds(ct, "ct") /\ Holds(ss, "ss") /\ ct[1].v.k = pk[1].v.k
    /\ (/\ IsKemCall(last) /\ last.op = "decapsulate"
        /\ Holds(ct, "ct") /\ Holds(sk, "sk") /\ Holds(ss, "ss")
        /\ ct[1].v.k = sk[1].v.k /\ ct[1].v.k # 0
        /\ ss[1].v.k = ct[1].v.k /\ ss[1].v.a = ct[1].v.a
        /\ BLen(ss2) = D.ss)
       => /\ last.res = Ok
          /\ ss2 = ss
    /\ (/\ last.crate = "pallet" /\ alg.variant \in KemFamilies
        /\ last.name \in PalletFamilies[alg.variant].names
        /\ last.op \in {"keygen", "encapsulate", "decapsulate"})
       => /\ last.res = Ok
          /\ (last.op = "decapsulate" /\ pk # <<>> /\ ss # <<>>) => ss2 = ss

\* C4: in every signature variant, sign with a generated secret key
\* succeeds, verify of that signature under the matching public key is
\* Ok(true) for the signed message and Ok(false) for any other message.
C4_SignVerify ==
    /\ (/\ IsSignSession /\ last.op = "sign"
        /\ Holds(sk, "sk") /\ sk[1].v.k # 0
        /\ BLen(sig) >= D.sig /\ last.num <= D.sig)
       => /\ last.res = OkLen(last.num)
          /\ HoldsPrefix(sig, "sm")
    /\ (/\ IsSignSession /\ last.op = "verify"
        /\ HoldsPrefix(sig, "sm") /\ last.num = sig[1].n
        /\ Holds(pk, "pk") /\ pk[1].v.k = sig[1].v.k)
       => last.res = OkBool(last.msg = sig[1].v.a)

\* C5: in every KEM variant, encapsulate answers a public key of the wrong
\* length with InvalidInput and a ciphertext or shared-secret buffer of the
\* wrong length with BufferTooSmall.
C5_EncapsulateFailureClasses ==
    (IsKemCall(last) /\ last.op = "encapsulate") =>
       /\ (BLen(pk) # D.pk /\ BLen(ct) = D.ct /\ BLen(ss) = D.ss)
          => last.res = Err("InvalidInput")
       /\ (BLen(pk) = D.pk /\ (BLen(ct) # D.ct \/ BLen(ss) # D.ss))
          => last.res = Err("BufferTooSmall")

\* the randomness source of call c was asked and answered with an error
SourceFailed(c) ==
    /\ c.crate = "pqno_std" /\ c.op \in {"keypair", "encapsulate"}
    /\ c.rng >= 1 /\ c.src # "ChaChaRng" /\ c.gen = 0

\* C6: a keypair or encapsulate whose randomness source fails returns
\* RngFailure, calls no backend, has asked the source once and leaves every
\* buffer as it was.
C6_RngFailure ==
    [][SourceFailed(last') =>
          /\ last'.res = Err("RngFailure")
          /\ last'.be = 0
          /\ last'.rng = 1
          /\ bufs' = bufs]_vars

\* the length contract of operation op on the session's buffers (the
\* signature slice of a verify call has last.num bytes)
LengthContract(op) ==
    CASE op = "keypair"     -> BLen(pk) = D.pk /\ BLen(sk) = D.sk
      [] op = "encapsulate" -> BLen(ct) = D.ct /\ BLen(ss) = D.ss /\ BLen(pk) = D.pk
      [] op = "decapsulate" -> BLen(ss2) = D.ss /\ BLen(ct) = D.ct /\ BLen(sk) = D.sk
      [] op = "sign"        -> BLen(sig) >= D.sig /\ BLen(sk) = D.sk
      [] op = "verify"      -> BLen(pk) = D.pk /\ last.num > 0
      [] OTHER              -> TRUE

\* no length check follows a backend step in the trace ev
ChecksFirst(ev) ==
    \A i, j \in DOMAIN ev :
       (i < j /\ ev[i] \in {"decode", "backend"}) => ev[j] \notin {"check", "reject"}

\* C7: in every facade operation the backend (decoding included) runs only
\* after all the length checks, and never in a call one of whose buffers
\* violates its length contract.
C7_ChecksBeforeBackend ==
    (IsFacadeCall(last) /\ last.be > 0) =>
       /\ ChecksFirst(last.ev)
       /\ LengthContract(last.op)

\* the names each dispatcher entry point serves
FamilyNames ==
    [mlkem  |-> {"mlkem512", "mlkem768", "mlkem1024"},
     mldsa  |-> {"mldsa44", "mldsa65", "mldsa87"},
     hqc    |-> {"hqc128", "hqc192", "hqc256"},
     falcon |-> {"falcon512", "falcon1024"}]

\* the family of the entry point of dispatcher call c
FamilyOf(c) ==
    CASE c.op = "mlkem_keygen" -> "mlkem"
      [] c.op = "mldsa_keygen" -> "mldsa"
      [] OTHER -> alg.variant

\* the error each entry point keeps for a name outside its family
DesignatedError(c) ==
    CASE c.crate = "pqnostd"        -> "UnsupportedAlgorithm"
      [] FamilyOf(c) = "mlkem"      -> "Unsupported ML-KEM algorithm"
      [] FamilyOf(c) = "mldsa"      -> "Unsupported ML-DSA algorithm"
      [] FamilyOf(c) = "hqc"        -> "Unsupported HQC-KEM algorithm"
      [] OTHER                      -> "Unsupported Falcon algorithm"

\* a call c to a dispatcher entry point
IsDispatcherCall(c) == alg.api = "dispatch" /\ c.crate \in {"pqnostd", "pallet"}

\* C8: every dispatcher entry point answers every name outside its family
\* (the empty string, another family's name) with its one designated error,
\* without a panic and with every buffer left as it was.
C8_UnknownName ==
    [][(IsDispatcherCall(last') /\ last'.name \notin FamilyNames[FamilyOf(last')]) =>
          /\ last'.res = Err(DesignatedError(last'))
          /\ bufs' = bufs]_vars

C8_Witness ==
    /\ last.crate = "pqnostd" /\ last.op = "mlkem_keygen" /\ last.name = "mldsa44"
    /\ last.res = Err("UnsupportedAlgorithm")
    /\ Holds(pk, "pk") /\ Holds(sk, "sk")

\* the variant each name selects
VariantOf ==
    [mlkem512 |-> "MlKem512", mlkem768 |-> "MlKem768", mlkem1024 |-> "MlKem1024",
     mldsa44 |-> "MlDsa44", mldsa65 |-> "MlDsa65", mldsa87 |-> "MlDsa87"]

\* C9: for every accepted name and every pk/sk length combination,
\* mlkem_keygen and mldsa_keygen return the result, and write the bytes,
\* that the keypair facade of the named variant returns and writes on the
\* same buffers.
C9_DispatcherDefers ==
    [][/\ (/\ last'.crate = "pqnostd" /\ last'.op = "mlkem_keygen"
           /\ last'.name \in FamilyNames.mlkem)
          => LET r == KemKeypair(VariantOf[last'.name], pk, sk, last'.gen)
             IN  last'.res = r.res /\ pk' = r.pk /\ sk' = r.sk
       /\ (/\ last'.crate = "pqnostd" /\ last'.op = "mldsa_keygen"
           /\ last'.name \in FamilyNames.mldsa)
          => LET r == SignKeypair(VariantOf[last'.name], pk, sk, last'.gen)
             IN  last'.res = r.res /\ pk' = r.pk /\ sk' = r.sk]_vars

C9_Witness ==
    /\ last.crate = "pqnostd" /\ last.op = "mlkem_keygen" /\ last.name = "mlkem768"
    /\ last.res = Ok
    /\ Holds(pk, "pk") /\ pk[1].v.alg = "MlKem768" /\ pk[1].n = 1184

\* the descriptor of the variant a name selects (the HQC and Falcon names
\* as the ML-KEM and ML-DSA ones)
NamedDescriptor(name) ==
    CASE name \in FamilyNames.mlkem -> PqnostdKem[VariantOf[name]] @@ [sig |-> 0]
      [] name \in FamilyNames.mldsa -> PqnostdSign[VariantOf[name]] @@ [ct |-> 0, ss |-> 0]
      [] name = "hqc128"     -> PqnostdKem.Hqc128 @@ [sig |-> 0]
      [] name = "hqc192"     -> PqnostdKem.Hqc192 @@ [sig |-> 0]
      [] name = "hqc256"     -> PqnostdKem.Hqc256 @@ [sig |-> 0]
      [] name = "falcon512"  -> PqnostdSign.Falcon512 @@ [ct |-> 0, ss |-> 0]
      [] OTHER               -> PqnostdSign.Falcon1024 @@ [ct |-> 0, ss |-> 0]

\* C10: for every name a dispatcher accepts, the key, ciphertext and
\* shared-secret lengths it produces are those of the named variant's own
\* descriptor.
C10_NamedDescriptor ==
    (/\ IsDispatcherCall(last) /\ last.res.tag = "Ok"
     /\ last.name \in FamilyNames[FamilyOf(last)]) =>
       LET N == NamedDescriptor(last.name)
       IN  /\ last.op \in {"mlkem_keygen", "mldsa_keygen"}
              => /\ HoldsPrefix(pk, "pk") /\ pk[1].n = N.pk
                 /\ HoldsPrefix(sk, "sk") /\ sk[1].n = N.sk
           /\ last.op = "keygen" => BLen(pk) = N.pk /\ BLen(sk) = N.sk
           /\ last.op = "encapsulate" => BLen(ct) = N.ct /\ BLen(ss) = N.ss
           /\ last.op = "decapsulate" => BLen(ss2) = N.ss

\* the size contract table: bytes of the public key, the secret key, the
\* ciphertext or the maximum signature, the shared secret, per variant
SizeTable ==
    [MlKem512   |-> [pk |-> 800,  sk |-> 1632, ct |-> 768,   ss |-> 32, sig |-> 0],
     MlKem768   |-> [pk |-> 1184, sk |-> 2400, ct |-> 1088,  ss |-> 32, sig |-> 0],
     MlKem1024  |-> [pk |-> 1568, sk |-> 3168, ct |-> 1568,  ss |-> 32, sig |-> 0],
     Hqc128     |-> [pk |-> 2249, sk |-> 57,   ct |-> 4481,  ss |-> 32, sig |-> 0],
     Hqc192     |-> [pk |-> 4522, sk |-> 57,   ct |-> 9026,  ss |-> 32, sig |-> 0],
     Hqc256     |-> [pk |-> 7245, sk |-> 57,   ct |-> 14469, ss |-> 32, sig |-> 0],
     MlDsa44    |-> [pk |-> 1312, sk |-> 2560, ct |-> 0, ss |-> 0, sig |-> 2420],
     MlDsa65    |-> [pk |-> 1952, sk |-> 4032, ct |-> 0, ss |-> 0, sig |-> 3309],
     MlDsa87    |-> [pk |-> 2592, sk |-> 4896, ct |-> 0, ss |-> 0, sig |-> 4627],
     Falcon512  |-> [pk |-> 897,  sk |-> 1281, ct |-> 0, ss |-> 0, sig |-> 666],
     Falcon1024 |-> [pk |-> 1793, sk |-> 2305, ct |-> 0, ss |-> 0, sig |-> 1280]]

\* the row of the table a crate's variant belongs to
TableRow(variant) == IF variant = "HqcKem128" THEN "Hqc128" ELSE variant

\* C11: in every crate, the descriptor constants of each variant (public
\* key, secret key, ciphertext or maximum signature, shared secret) equal
\* the row of the size contract table for that variant, and are positive.
C11_DescriptorTable ==
    (alg.api = "typed" /\ alg.crate \in {"pqnostd", "pqno_std"}) =>
       LET T == SizeTable[TableRow(alg.variant)]
       IN  /\ D.pk = T.pk /\ D.sk = T.sk /\ D.ct = T.ct
           /\ D.ss = T.ss /\ D.sig = T.sig
           /\ D.pk > 0 /\ D.sk > 0 /\ D.ct + D.sig > 0

\* C12: KEM keypair fails with BufferTooSmall unless both buffers have
\* exactly the descriptor length (a longer buffer fails like a shorter one);
\* with both lengths exact and a delivering randomness source it returns Ok
\* with both buffers filled.
C12_KeypairExactLengths ==
    (IsKemCall(last) /\ last.op = "keypair") =>
       /\ (BLen(pk) # D.pk \/ BLen(sk) # D.sk) => last.res = Err("BufferTooSmall")
       /\ (BLen(pk) = D.pk /\ BLen(sk) = D.sk /\ RngDelivered(last))
          => last.res = Ok /\ Holds(pk, "pk") /\ Holds(sk, "sk")

\* the variants of the family, in the crate, of the session's variant
Peers ==
    CASE alg.crate = "pqno_std"        -> NoStdVariants
      [] alg.variant \in KemVariants   -> KemVariants
      [] alg.variant \in SignVariants  -> SignVariants
      [] OTHER                         -> {}

\* Ok, or the error kind (or the panic)
OutcomeClass(res) == <<res.tag, res.err>>

\* the result, in variant b, of the call c made on fresh buffers that stand
\* to b's descriptor lengths as the session's buffers stand to its own
PeerResult(b, c) ==
    LET P == Desc([alg EXCEPT !.variant = b])
        T(x, f) == IF x = <<>> THEN <<>> ELSE ZeroBuf(P[f] + BLen(x) - D[f])
        o == [ok |-> c.gen # 0, seed |-> c.gen]
    IN  CASE alg.crate = "pqno_std" /\ c.op = "keypair" ->
                NoStdKemKeypair(b, T(pk, "pk"), T(sk, "sk"), c.src, o).res
          [] alg.crate = "pqno_std" /\ c.op = "encapsulate" ->
                NoStdKemEncapsulate(b, T(ct, "ct"), T(ss, "ss"), T(pk, "pk"), c.src, o).res
          [] alg.crate = "pqno_std" /\ c.op = "decapsulate" ->
                NoStdKemDecapsulate(b, T(ss2, "ss"), T(ct, "ct"), T(sk, "sk")).res
          [] b \in KemVariants /\ c.op = "keypair" ->
                KemKeypair(b, T(pk, "pk"), T(sk, "sk"), c.gen).res
          [] b \in KemVariants /\ c.op = "encapsulate" ->
                KemEncapsulate(b, T(ct, "ct"), T(ss, "ss"), T(pk, "pk"), c.gen).res
          [] b \in KemVariants /\ c.op = "decapsulate" ->
                KemDecapsulate(b, T(ss2, "ss"), T(ct, "ct"), T(sk, "sk")).res
          [] b \in SignVariants /\ c.op = "keypair" ->
                SignKeypair(b, T(pk, "pk"), T(sk, "sk"), c.gen).res
          [] b \in SignVariants /\ c.op = "sign" ->
                Sign(b, T(sig, "sig"), c.msg, T(sk, "sk"), P.sig + c.num - D.sig).res
          [] OTHER ->
                Verify(b, T(sig, "sig"), c.msg, T(pk, "pk")).res

\* C13: for any two variants of one family and one operation, buffers in
\* the same relation to their descriptor lengths (shorter, equal, longer,
\* empty) yield the same outcome class: Ok, or the same error kind.  Stated
\* for the first call a caller makes on its fresh buffers.
C13_UniformPolicy ==
    [][(ncalls = 0 /\ IsFacadeCall(last')) =>
          \A b \in Peers :
             OutcomeClass(PeerResult(b, last')) = OutcomeClass(last'.res)]_vars

\* C14: sign fails with BufferTooSmall whenever the signature the backend
\* encoded is longer than the variant's maximum signature length, and then
\* writes nothing to the signature buffer.
C14_SignTooLong ==
    [][(/\ IsSignSession /\ last'.op = "sign"
        /\ last'.be = 2 /\ last'.num > D.sig) =>
          /\ last'.res = Err("BufferTooSmall")
          /\ sig' = sig]_vars

\* C15: when sign returns Ok(n), n is the length of the signature the
\* backend encoded, n <= SIGNATURE_LEN_MAX <= sig.len(), and the first n
\* bytes of sig are that encoding.
C15_SignLength ==
    (IsSignSession /\ last.op = "sign" /\ last.res.tag = "Ok") =>
       /\ last.res.n = last.num
       /\ last.res.n <= D.sig /\ D.sig <= BLen(sig)
       /\ HoldsPrefix(sig, "sm")
       /\ sig[1].n = last.res.n /\ sig[1].v.a = last.msg
       /\ BLen(Drop(sig, last.res.n)) = BLen(sig) - last.res.n

C15_Witness ==
    /\ IsSignSession /\ last.op = "sign"
    /\ last.res = OkLen(D.sig - 1) /\ BLen(sig) = D.sig + Slack
    /\ HoldsPrefix(sig, "sm") /\ sig[1].v.k # 0

\* the signature slice handed to the last verify call
VerifiedSlice == IF last.num = BLen(sig) THEN sig ELSE SignedPrefix(sig)

\* the slice is a signed message of the message m under the key held in pk
Authenticates(m) ==
    /\ Holds(VerifiedSlice, "sm") /\ Holds(pk, "pk")
    /\ VerifiedSlice[1].v.k = pk[1].v.k
    /\ VerifiedSlice[1].v.a = m

\* C16: in every signature variant verify answers a public key of the wrong
\* length with Err(InvalidInput), never with Ok(true), and returns Ok(false)
\* exactly for well-formed input (a key of the right length, a non-empty
\* signature) whose signature does not authenticate the message.
C16_VerifyDistinguishes ==
    (IsSignSession /\ last.op = "verify") =>
       /\ BLen(pk) # D.pk => last.res = Err("InvalidInput")
       /\ last.num > 0 =>
            (last.res = OkBool(FALSE) <=> (BLen(pk) = D.pk /\ ~Authenticates(last.msg)))

\* C17: decapsulate draws no randomness, returns Ok only when the three
\* buffers have exactly the descriptor lengths, and answers any other
\* length with an error before the backend is called.
C17_DecapsulateExact ==
    (IsKemCall(last) /\ last.op = "decapsulate") =>
       LET exact == BLen(ss2) = D.ss /\ BLen(ct) = D.ct /\ BLen(sk) = D.sk
       IN  /\ last.rng = 0
           /\ last.res.tag = "Ok" => exact
           /\ ~exact => (last.res.tag = "Err" /\ last.be = 0)

(* ------------ pqno_std: the randomness helpers and get_rng ------------ *)

\* byte values a source writes into a buffer
ByteChoices == {1, 255}

\* the buffers of n bytes a source may deliver
Buffers(n) == [1..n -> ByteChoices]

\* a build: the cargo features that gate the sources
Builds ==
    [crate : {"pqno_std"}, api : {"rng"}, variant : {"RngCore"},
     cortex_m : BOOLEAN, esp32 : BOOLEAN, test : BOOLEAN]

\* the RngCore implementations the build compiles, and the caller's own
BuiltSources ==
    {"Caller"}
    \cup (IF alg.cortex_m THEN {"HardwareRng"} ELSE {})
    \cup (IF alg.esp32 THEN {"Esp32Rng"} ELSE {})
    \cup (IF alg.test THEN {"ChaChaRng"} ELSE {})

\* self.fill_bytes(&mut buf) on a zeroed buffer of n bytes, the caller's
\* source delivering o.bytes when o.ok
FillBuffer(src, n, o) ==
    LET f == fill_bytes(src, [ok |-> o.ok, seed |-> 0])
    IN  [res |-> f.res,
         buf |-> IF f.res.tag = "Ok" THEN o.bytes ELSE [i \in 1..n |-> 0]]

\* the bytes read most significant first
from_be_bytes(buf) ==
    LET n == Len(buf)
    IN  [i \in 1..(n \div 2) |-> buf[n - 2 * i + 2] + 256 * buf[n - 2 * i + 1]]

\* u32::from_le_bytes / u64::from_le_bytes.  The integer is held as its
\* base-2^16 digits, least significant first (a u32 or u64 exceeds the
\* integers of the model checker): digit i is buf[2i-1] + 2^8 * buf[2i].
from_le_bytes(buf) ==
    [i \in 1..(Len(buf) \div 2) |-> buf[2 * i - 1] + 256 * buf[2 * i]]

\* the body next_u32 and next_u64 share: fill n bytes once, `?`, convert
NextInt(src, n, o) ==
    LET f == FillBuffer(src, n, o)
    IN  [res |-> f.res, asked |-> 1, len |-> n, buf |-> f.buf,
         val |-> IF f.res.tag = "Ok" THEN from_le_bytes(f.buf) ELSE <<>>]

\* RngCore::next_u32
next_u32(src, o) == NextInt(src, 4, o)

\* RngCore::next_u64
next_u64(src, o) == NextInt(src, 8, o)

\* no reference returned
NoRef == [static |-> "", kind |-> "", id |-> 0]

\* the static slot: an instance is built only when the slot is None
Slot(st, name, kind) ==
    IF st[name] = <<>>
    THEN [st EXCEPT ![name] = <<[kind |-> kind, id |-> st.built + 1]>>,
                    !.built = st.built + 1]
    ELSE st

\* a slot that is assigned a new instance on every call
SlotRebuilt(st, name, kind) ==
    [st EXCEPT ![name] = <<[kind |-> kind, id |-> st.built + 1]>>,
               !.built = st.built + 1]

\* a get_rng that builds its source anew on every call
get_rng_rebuilding(build, st) ==
    IF build.cortex_m
    THEN LET s1 == SlotRebuilt(st, "HW_RNG", "HardwareRng")
         IN  [res |-> Ok, st |-> s1,
              ref |-> [static |-> "HW_RNG", kind |-> s1.HW_RNG[1].kind,
                       id |-> s1.HW_RNG[1].id]]
    ELSE IF build.esp32
    THEN LET s1 == SlotRebuilt(st, "ESP_RNG", "Esp32Rng")
         IN  [res |-> Ok, st |-> s1,
              ref |-> [static |-> "ESP_RNG", kind |-> s1.ESP_RNG[1].kind,
                       id |-> s1.ESP_RNG[1].id]]
    ELSE [res |-> Err("RngFailure"), st |-> st, ref |-> NoRef]

\* get_rng(): the Cortex-M block, else the ESP32 block, else RngFailure
get_rng(build, st) ==
    IF build.cortex_m
    THEN LET s1 == Slot(st, "HW_RNG", "HardwareRng")
         IN  [res |-> Ok, st |-> s1,
              ref |-> [static |-> "HW_RNG", kind |-> s1.HW_RNG[1].kind,
                       id |-> s1.HW_RNG[1].id]]
    ELSE IF build.esp32
    THEN LET s1 == Slot(st, "ESP_RNG", "Esp32Rng")
         IN  [res |-> Ok, st |-> s1,
              ref |-> [static |-> "ESP_RNG", kind |-> s1.ESP_RNG[1].kind,
                       id |-> s1.ESP_RNG[1].id]]
    ELSE [res |-> Err("RngFailure"), st |-> st, ref |-> NoRef]

\* the record of a call of the randomness layer: the fill_bytes calls it
\* made (rng), the length it asked for (num), the bytes it got, the integer
\* it produced, the reference it returned
RngCall(op, src, r) ==
    [buf |-> r.buf, val |-> r.val, ref |-> r.ref]
    @@ [NoCall EXCEPT !.crate = "pqno_std", !.op = op, !.src = src,
                      !.res = r.res, !.rng = r.asked, !.num = r.len]

\* what a source answers a helper that asks for n bytes: an error (the
\* crate's sources always, the caller's when it fails) or n bytes
HelperInputs(n) ==
    {<<src, [ok |-> FALSE, bytes |-> <<>>]>> : src \in BuiltSources}
    \cup {<<"Caller", [ok |-> TRUE, bytes |-> b]>> : b \in Buffers(n)}

(* ------- pqcrypto-internals: the foreign randomness hook ------------- *)

\* region lengths a C caller passes
RegionLens == 0..MaxRegion

\* the region after getrandom touched its first k bytes only (0: untouched)
PartFilled(len, k) == [i \in 1..len |-> IF i <= k THEN 255 ELSE 0]

\* getrandom::fill(buf): Ok with every byte of buf written, or Err with buf
\* in an unspecified state (any proper prefix written)
GetrandomOutcomes(len) ==
    {[ok |-> TRUE, bytes |-> b] : b \in Buffers(len)}
    \cup {[ok |-> FALSE, bytes |-> PartFilled(len, k)] :
            k \in 0..(IF len = 0 THEN 0 ELSE len - 1)}

\* a hook that drops the provider's result and returns 0
randombytes_ignoring_failure(len, o) ==
    [res |-> OkLen(0), buf |-> o.bytes]

\* PQCRYPTO_RUST_randombytes(buf, len): getrandom::fill(buf).expect(..); 0.
\* The panic of expect cannot unwind out of an extern "C" fn: it aborts.
PQCRYPTO_RUST_randombytes(len, o) ==
    IF o.ok
    THEN [res |-> OkLen(0), buf |-> o.bytes]
    ELSE [res |-> Panic("RNG Failed"), buf |-> o.bytes]

InitRng ==
    /\ alg \in Builds
    /\ pk = <<>> /\ sk = <<>> /\ ct = <<>> /\ ss = <<>> /\ ss2 = <<>> /\ sig = <<>>
    /\ last = NoCall
    /\ ncalls = 0
    /\ statics = NoStatics
    /\ kat = NoKat
    /\ ctx = NoCtx

\* one (externally serialized) call of get_rng
GetRng ==
    /\ ncalls < MaxCalls /\ ncalls' = ncalls + 1
    /\ LET r == get_rng(alg, statics)
       IN  /\ statics' = r.st
           /\ last' = RngCall("get_rng", r.ref.kind,
                              [res |-> r.res, asked |-> 0, len |-> 0,
                               buf |-> <<>>, val |-> <<>>, ref |-> r.ref])
    /\ UNCHANGED <<alg, pk, sk, ct, ss, ss2, sig, kat, ctx>>

NextU32 ==
    /\ \E i \in HelperInputs(4) :
         last' = RngCall("next_u32", i[1], next_u32(i[1], i[2]) @@ [ref |-> NoRef])
    /\ UNCHANGED <<alg, pk, sk, ct, ss, ss2, sig, ncalls, statics, kat, ctx>>

NextU64 ==
    /\ \E i \in HelperInputs(8) :
         last' = RngCall("next_u64", i[1], next_u64(i[1], i[2]) @@ [ref |-> NoRef])
    /\ UNCHANGED <<alg, pk, sk, ct, ss, ss2, sig, ncalls, statics, kat, ctx>>

\* a C caller asks the hook for len bytes
RandomBytes ==
    /\ \E len \in RegionLens : \E o \in GetrandomOutcomes(len) :
         LET r == PQCRYPTO_RUST_randombytes(len, o)
         IN  last' = [RngCall("randombytes", "getrandom",
                              [res |-> r.res, asked |-> 1, len |-> len,
                               buf |-> r.buf, val |-> <<>>, ref |-> NoRef])
                       EXCEPT !.crate = "pqcrypto-internals",
                              !.arg = IF o.ok THEN "provider ok" ELSE "provider failed"]
    /\ UNCHANGED <<alg, pk, sk, ct, ss, ss2, sig, ncalls, statics, kat, ctx>>

NextRng ==
    \/ GetRng
    \/ NextU32
    \/ NextU64
    \/ RandomBytes

SpecRng == InitRng /\ [][NextRng]_vars

(* ------------------------------- C18 ---------------------------------- *)

IsHelperCall == last.op \in {"next_u32", "next_u64"}

\* byte k (from 0, least significant) of an integer held as base-2^16 digits
ByteOf(val, k) == (val[(k \div 2) + 1] \div (IF k % 2 = 0 THEN 1 ELSE 256)) % 256

\* C18: next_u32 calls fill_bytes exactly once on a 4-byte buffer and
\* next_u64 exactly once on an 8-byte buffer; on success the integer returned
\* is the little-endian reading of the buffer (byte k of the integer, counted
\* from the least significant, is byte k of the buffer, so the integer is
\* b0 + 2^8*b1 + 2^16*b2 + ...); when fill_bytes fails, the helper returns the
\* very error of the source and produces no integer.
C18_LittleEndianHelpers ==
    IsHelperCall =>
        /\ last.rng = 1
        /\ last.num = (IF last.op = "next_u32" THEN 4 ELSE 8)
        /\ last.res.tag = "Ok" =>
             /\ Len(last.buf) = last.num
             /\ Len(last.val) * 2 = last.num
             /\ \A k \in 0..(last.num - 1) : ByteOf(last.val, k) = last.buf[k + 1]
        /\ last.res.tag # "Ok" =>
             /\ last.val = <<>>
             /\ last.res = fill_bytes(last.src, [ok |-> FALSE, seed |-> 0]).res
             /\ last.src \in {"HardwareRng", "Esp32Rng"}
                    => last.res = Err("HardwareAccelUnavailable")
             /\ last.src = "Caller" => last.res = Err("RngFailure")

\* next_u32 over the bytes 255, 1, 1, 1 returned 0x010101FF
C18_Witness ==
    /\ last.op = "next_u32" /\ last.res = Ok
    /\ last.buf = <<255, 1, 1, 1>>
    /\ last.val = <<511, 257>>

(* ------------------------------- C19 ---------------------------------- *)

\* C19: in a build with no hardware randomness source configured (neither a
\* Cortex-M feature nor esp32), get_rng returns a usable source, never an
\* error.
C19_SoftwareFallback ==
    (last.op = "get_rng" /\ ~alg.cortex_m /\ ~alg.esp32)
        => /\ last.res.tag = "Ok"
           /\ last.ref.kind \in BuiltSources

(* ------------------------------- C20 ---------------------------------- *)

HardwareBuild == alg.cortex_m \/ alg.esp32

SelectedKind == IF alg.cortex_m THEN "HardwareRng" ELSE "Esp32Rng"

SelectedSlot == IF alg.cortex_m THEN "HW_RNG" ELSE "ESP_RNG"

\* C20: over any sequence of serialized get_rng calls in a build with a
\* hardware source, the instance is constructed exactly once, on the first
\* call (later calls leave the statics as they are); every call succeeds and
\* returns that one instance, of the selected kind (Cortex-M before ESP32),
\* which is the kind every earlier call returned; the slot of the other kind
\* is never filled.
C20_SingletonOnce ==
    [][(HardwareBuild /\ last'.op = "get_rng") =>
         /\ statics'.built = 1
         /\ (ncalls = 0) = (statics.built = 0)
         /\ ncalls > 0 => statics' = statics
         /\ last'.res = Ok
         /\ last'.ref.kind = SelectedKind
         /\ last'.ref.static = SelectedSlot
         /\ statics'[SelectedSlot] = <<[kind |-> SelectedKind, id |-> 1]>>
         /\ last'.ref.id = 1
         /\ \A s \in {"HW_RNG", "ESP_RNG"} \ {SelectedSlot} : statics'[s] = <<>>
         /\ last.op = "get_rng" => last'.ref = last.ref]_vars

\* three calls in a build with both features: still the first Cortex-M instance
C20_Witness ==
    /\ alg.cortex_m /\ alg.esp32
    /\ ncalls = MaxCalls
    /\ last.op = "get_rng" /\ last.res = Ok
    /\ last.ref = [static |-> "HW_RNG", kind |-> "HardwareRng", id |-> 1]
    /\ statics.built = 1 /\ statics.ESP_RNG = <<>>

(* ------------------------------- C21 ---------------------------------- *)

IsHookCall == last.op = "randombytes"

\* every byte of the region has been written
Filled(buf, len) == Len(buf) = len /\ \A i \in 1..len : buf[i] \in ByteChoices

\* C21: PQCRYPTO_RUST_randombytes(buf, len) returns 0 only with all len bytes
\* of the region filled; when the entropy provider fails the hook does not
\* return 0 (and so never returns 0 over an unfilled or partly filled
\* region): it takes the abort (panic) path or returns nonzero; when the
\* provider succeeds it returns 0.
C21_RandombytesFillsOrAborts ==
    IsHookCall =>
        /\ (last.res.tag = "Ok" /\ last.res.n = 0) => Filled(last.buf, last.num)
        /\ last.arg = "provider failed" =>
             \/ last.res.tag = "Panic"
             \/ (last.res.tag = "Ok" /\ last.res.n # 0)
        /\ last.arg = "provider ok" => last.res = OkLen(0)

\* the provider failed after writing one of three bytes: the hook aborted
C21_Witness ==
    /\ IsHookCall /\ last.num = 3 /\ last.arg = "provider failed"
    /\ last.buf = <<255, 0, 0>>
    /\ last.res = Panic("RNG Failed")

(* ------------------------------- C22 ---------------------------------- *)

\* the pqno_std variants whose backend is not wired in
NoStdUnwired == {"MlKem768", "MlKem1024", "HqcKem128"}

\* a call on a recognized variant that has no backend behind it: any
\* operation of an unwired pqno_std variant, or a pallet HQC function called
\* with one of the names it matches
IsUnavailableCall(c) ==
    \/ c.crate = "pqno_std" /\ alg.api = "typed" /\ alg.variant \in NoStdUnwired
                            /\ c.op \in {"keypair", "encapsulate", "decapsulate"}
    \/ c.crate = "pallet" /\ alg.variant = "hqc"
                          /\ c.op \in {"keygen", "encapsulate", "decapsulate"}
                          /\ c.name \in PalletFamilies.hqc.names

\* the error kinds of the two crates that report a failed cryptographic
\* operation
CryptoFailureKinds == {"VerificationFailed", "OperationFailed", "KeyGenerationFailed"}

\* C22: every operation of a recognized variant whose backend is not wired
\* in reports the unavailability: it returns neither Ok (with placeholder
\* output) nor a cryptographic-failure kind; in pqno_std (MlKem768,
\* MlKem1024, HqcKem128) it returns UnsupportedOperation for all inputs,
\* without drawing randomness and without modifying any buffer.
C22_UnavailableVariant ==
    [][IsUnavailableCall(last') =>
         /\ last'.res.tag # "Ok"
         /\ last'.res.err \notin CryptoFailureKinds
         /\ last'.crate = "pqno_std" =>
              /\ last'.res = Err("UnsupportedOperation")
              /\ last'.rng = 0 /\ last'.be = 0
              /\ bufs' = bufs]_vars

(* ------------------------------- C23 ---------------------------------- *)

\* a call through a typed facade or a string-keyed dispatcher
IsOperation(c) == c.crate \in {"pqnostd", "pqno_std", "pallet"} /\ c.op # "init"

\* C23: every facade and dispatcher operation returns a result value (Ok or
\* Err) for all buffer lengths and contents, the backend encoding its outputs
\* at their descriptor lengths: no slice-index, copy-length or assert! panic
\* is reachable.  (The one panic a call can end in is raised inside the
\* randomness source the caller injected, ChaChaRng's unimplemented
\* fill_bytes, not by the operation.)
C23_NoPanic ==
    IsOperation(last) =>
        \/ last.res.tag \in {"Ok", "Err"}
        \/ /\ last.res = Panic("not yet implemented")
           /\ last.crate = "pqno_std" /\ last.src = "ChaChaRng"
           /\ last.rng = 1 /\ last.be = 0

\* Hqc128::keypair on buffers longer than the descriptor: both assert! pass
C23_Witness ==
    /\ alg = [crate |-> "pqnostd", api |-> "typed", variant |-> "Hqc128"]
    /\ last.op = "keypair" /\ last.res = Ok
    /\ BLen(pk) = D.pk + Slack /\ BLen(sk) = D.sk + Slack
    /\ HoldsPrefix(pk, "pk")

(* ------------------------------- C24 ---------------------------------- *)

C25_ErrorLeavesOutputs ==
    [][(IsOperation(last') /\ last'.res.tag = "Err") => bufs' = bufs]_vars

\* sign failed on an oversized encoding; the buffer still holds the earlier
\* signature
C25_Witness ==
    /\ IsSignSession /\ last.op = "sign"
    /\ last.res = Err("OperationFailed") /\ last.num > D.sig
    /\ HoldsPrefix(sig, "sm") /\ sig[1].v.k # 0

(* ------------------------------- C26 ---------------------------------- *)

\* the descriptor whose lengths call c writes: the session's variant, or in
\* a dispatcher session the variant the name selects
Written(c) == IF alg.api = "typed" THEN D ELSE NamedDescriptor(c.name)

\* the bytes of b from index n on are the same before and after the step
TailKept(before, after, n) ==
    BLen(after) = BLen(before) /\ Drop(after, n) = Drop(before, n)

PassedChecks(ev) == Len(ev) - 1

\* the outcome the length checks give when run in the order `wrong`: the
\* first failing check numbers the passed ones and decides the error
FirstFailing(wrong, errs) ==
    IF \E i \in 1..Len(wrong) : wrong[i]
    THEN LET i == CHOOSE j \in 1..Len(wrong) :
                     wrong[j] /\ \A h \in 1..(j - 1) : ~wrong[h]
         IN  [rejected |-> TRUE, passed |-> i - 1, err |-> errs[i]]
    ELSE [rejected |-> FALSE, passed |-> Len(wrong), err |-> ""]

\* C27: in pqno_std MlKem512 the length checks run in a fixed order, output
\* buffers first, and exactly the first failing one determines the error:
\* encapsulate checks the ciphertext (BufferTooSmall), then the shared
\* secret (BufferTooSmall), then the public key (InvalidInput), so a wrong
\* output length together with a wrong public-key length gives
\* BufferTooSmall; decapsulate checks the shared secret (BufferTooSmall),
\* then the ciphertext, then the secret key (both InvalidInput).  A call is
\* rejected by a length check iff some length is wrong, and then before any
\* randomness is drawn or the backend called.
C27_CheckOrder ==
    (last.crate = "pqno_std" /\ alg.variant = "MlKem512"
       /\ last.op \in {"encapsulate", "decapsulate"}) =>
        LET f == IF last.op = "encapsulate"
                 THEN FirstFailing(<<BLen(ct) # 768, BLen(ss) # 32, BLen(pk) # 800>>,
                                   <<"BufferTooSmall", "BufferTooSmall", "InvalidInput">>)
                 ELSE FirstFailing(<<BLen(ss2) # 32, BLen(ct) # 768, BLen(sk) # 1632>>,
                                   <<"BufferTooSmall", "InvalidInput", "InvalidInput">>)
        IN  IF f.rejected
            THEN /\ last.res = Err(f.err)
                 /\ last.ev[Len(last.ev)] = "reject"
                 /\ PassedChecks(last.ev) = f.passed
                 /\ last.rng = 0 /\ last.be = 0
            ELSE /\ "reject" \notin {last.ev[i] : i \in 1..Len(last.ev)}
                 /\ SubSeq(last.ev, 1, 3) = <<"check", "check", "check">>

\* encapsulate with a wrong ciphertext length and a wrong public-key length
\* returned BufferTooSmall
C27_Witness ==
    /\ last.crate = "pqno_std" /\ alg.variant = "MlKem512"
    /\ last.op = "encapsulate"
    /\ BLen(ct) # 768 /\ BLen(ss) = 32 /\ BLen(pk) # 800
    /\ last.res = Err("BufferTooSmall")

(* ---------------- mlkem_host_cli: the KAT verifier -------------------- *)

\* the variants verify_case matches
KnownVariants == {"mlkem512", "mlkem768", "mlkem1024"}

\* values of --variant (a String: any text)
ArgVariants == KnownVariants \cup {"hqc128"}

\* a line of the response file, trimmed: its kind by the tests of run_rsp
\* (empty; starting with '#'; "ct =", "sk =", "ss =" followed by hex or by
\* something hex::decode rejects; starting with "count ="; anything else,
\* such as "pk = .." or "seed = .."), or a read error.  The bytes of a field
\* line are those of KAT record rec: q = "good" for the record's own value,
\* "bad" for other bytes (ct, sk: of a length from_bytes rejects).
LinesOf(rec) ==
    {[kind |-> k, q |-> "", rec |-> rec] :
        k \in {"empty", "comment", "count", "other", "ioerr"}}
    \cup [kind : {"ct", "sk", "ss"}, q : {"good", "bad", "nothex"}, rec : {rec}]

\* Option<Vec<u8>>
None == <<>>

Some(v) == <<v>>

\* parse_hex(rest)
parse_hex(l) ==
    IF l.q = "nothex" THEN [ok |-> FALSE, v |-> None]
    ELSE [ok |-> TRUE, v |-> [q |-> l.q, rec |-> l.rec]]

\* verify_case(variant, ct, sk, ss_exp): from_bytes of ct, then of sk, then
\* decapsulate and compare with the expected secret (equal iff ss_exp is the
\* secret of the record ct and sk are from)
verify_case(variant, c, s, e) ==
    IF variant \in KnownVariants
    THEN IF c.q # "good" THEN [tag |-> "Err", err |-> "ct", b |-> FALSE]
         ELSE IF s.q # "good" THEN [tag |-> "Err", err |-> "sk", b |-> FALSE]
         ELSE [tag |-> "Ok", err |-> "",
               b |-> (e.q = "good" /\ e.rec = c.rec /\ s.rec = c.rec)]
    ELSE [tag |-> "Err", err |-> "unknown variant", b |-> FALSE]

\* run_rsp after File::open: the locals before the loop
KatOpened(variant) ==
    [pc |-> "lines", variant |-> variant, nlines |-> 0,
     cases_total |-> 0, cases_passed |-> 0,
     cur_ct |-> None, cur_sk |-> None, cur_ss |-> None,
     result |-> "none", err |-> "", exit |-> -1]

\* run_rsp returns Err(e) through `?`: main returns it, the process exits
\* with a failure status
KatFail(k, e) == [k EXCEPT !.pc = "done", !.result = "error", !.err = e, !.exit = 1]

\* a take that empties the pending fields only when all three are present
take_when_complete(k) ==
    [ct |-> k.cur_ct, sk |-> k.cur_sk, ss |-> k.cur_ss,
     k |-> IF k.cur_ct # None /\ k.cur_sk # None /\ k.cur_ss # None
           THEN [k EXCEPT !.cur_ct = None, !.cur_sk = None, !.cur_ss = None]
           ELSE k]

\* (cur_ct.take(), cur_sk.take(), cur_ss.take()): the tuple is built, all
\* three taken, before it is matched
take(k) ==
    [ct |-> k.cur_ct, sk |-> k.cur_sk, ss |-> k.cur_ss,
     k |-> [k EXCEPT !.cur_ct = None, !.cur_sk = None, !.cur_ss = None]]

\* the `if let (Some(ct), Some(sk), Some(ss)) = (..take()..)` block, at a
\* "count =" line and after the loop
evaluate_pending(k) ==
    LET t == take(k)
    IN  IF t.ct # None /\ t.sk # None /\ t.ss # None
        THEN LET k1 == [t.k EXCEPT !.cases_total = @ + 1]
                 v  == verify_case(k.variant, t.ct[1], t.sk[1], t.ss[1])
             IN  IF v.tag = "Err" THEN KatFail(k1, v.err)
                 ELSE IF v.b THEN [k1 EXCEPT !.cases_passed = @ + 1]
                 ELSE k1
        ELSE t.k

\* one iteration of `for line in r.lines()`
run_line(k, l) ==
    LET k0 == [k EXCEPT !.nlines = @ + 1]
        h  == parse_hex(l)
    IN  CASE l.kind = "ioerr" -> KatFail(k0, "io")
          [] l.kind \in {"empty", "comment"} -> k0
          [] l.kind \in {"ct", "sk", "ss"} ->
                IF ~h.ok THEN KatFail(k0, "hex")
                ELSE IF l.kind = "ct" THEN [k0 EXCEPT !.cur_ct = Some(h.v)]
                ELSE IF l.kind = "sk" THEN [k0 EXCEPT !.cur_sk = Some(h.v)]
                ELSE [k0 EXCEPT !.cur_ss = Some(h.v)]
          [] l.kind = "count" -> evaluate_pending(k0)
          [] OTHER -> k0

\* the end of the file: the tail case, Ok(KatSummary), and main's exit
run_tail(k) ==
    LET k1 == evaluate_pending(k)
    IN  IF k1.pc = "done" THEN k1
        ELSE [k1 EXCEPT !.pc = "done", !.result = "summary",
                        !.exit = IF k1.cases_total = k1.cases_passed THEN 0 ELSE 1]

\* bookkeeping about the file read so far, kept beside the verifier's
\* locals: the index of the current record (the lines since the last
\* "count =" line), the fields seen in it, the number of complete records
\* closed, the number of verify_case calls and the records they were made
\* for, whether a call was given fields of different records or was made
\* elsewhere than at a "count =" line or the end of the file, and the kind
\* of the last line
KatBook ==
    [rec |-> 0, seen |-> {}, complete |-> 0, evals |-> 0, evald |-> {},
     mixed |-> FALSE, offb |-> FALSE, last |-> "none"]

\* the bookkeeping after the verifier went from k to k2 on line kind `kind`
\* with field bytes accepted (`read`), or at the end of the file ("eof")
Booked(k, kind, read, k2) ==
    LET g        == k.g
        boundary == kind \in {"count", "eof"}
        called   == k2.cases_total > k.cases_total
        pending  == <<k.cur_ct, k.cur_sk, k.cur_ss>>
        whole    == \A i \in 1..3 : pending[i] # None /\ pending[i][1].rec = g.rec
    IN  [rec      |-> IF kind = "count" THEN g.rec + 1 ELSE g.rec,
         seen     |-> IF boundary THEN {}
                      ELSE IF read THEN g.seen \cup {kind} ELSE g.seen,
         complete |-> IF boundary /\ g.seen = {"ct", "sk", "ss"}
                      THEN g.complete + 1 ELSE g.complete,
         evals    |-> IF called THEN g.evals + 1 ELSE g.evals,
         evald    |-> IF called THEN g.evald \cup {g.rec} ELSE g.evald,
         mixed    |-> g.mixed \/ (called /\ ~whole),
         offb     |-> g.offb \/ (called /\ ~boundary),
         last     |-> kind]

KatSession == [crate |-> "mlkem_host_cli", api |-> "cli", variant |-> "main"]

InitKat ==
    /\ alg = KatSession
    /\ pk = <<>> /\ sk = <<>> /\ ct = <<>> /\ ss = <<>> /\ ss2 = <<>> /\ sig = <<>>
    /\ last = NoCall
    /\ ncalls = 0
    /\ statics = NoStatics
    /\ kat = [pc |-> "args"]
    /\ ctx = NoCtx

\* main: Args::parse, then run_rsp up to File::open(path)?
KatStart ==
    /\ kat.pc = "args"
    /\ \E v \in ArgVariants, opened \in BOOLEAN :
         LET k == KatOpened(v) @@ [g |-> KatBook]
         IN  kat' = IF opened THEN k ELSE KatFail(k, "open")
    /\ UNCHANGED <<alg, pk, sk, ct, ss, ss2, sig, last, ncalls, statics, ctx>>

\* the loop of run_rsp reads the next line
KatLine ==
    /\ kat.pc = "lines" /\ kat.nlines < MaxLines
    /\ \E l \in LinesOf(kat.g.rec) :
         LET k2 == run_line(kat, l)
         IN  kat' = [k2 EXCEPT !.g = Booked(kat, l.kind,
                                            l.kind \in {"ct", "sk", "ss"} /\ parse_hex(l).ok, k2)]
    /\ UNCHANGED <<alg, pk, sk, ct, ss, ss2, sig, last, ncalls, statics, ctx>>

\* the file ends: tail case, summary, exit status
KatEof ==
    /\ kat.pc = "lines"
    /\ LET k2 == run_tail(kat)
       IN  kat' = [k2 EXCEPT !.g = Booked(kat, "eof", FALSE, k2)]
    /\ UNCHANGED <<alg, pk, sk, ct, ss, ss2, sig, last, ncalls, statics, ctx>>

NextKat ==
    \/ KatStart
    \/ KatLine
    \/ KatEof

SpecKat == InitKat /\ [][NextKat]_vars

(* ------------------------------- C28 ---------------------------------- *)

KatRan == kat.pc \in {"lines", "done"} /\ kat.err # "open"

\* C28: in run_rsp, after any prefix of input lines, cases_passed <=
\* cases_total; cases are evaluated only at a "count =" line or at the end
\* of the file, only with ct, sk and ss all seen since the previous
\* "count =" line (never with fields of different records), each complete
\* record exactly once, so cases_total is the number of complete records;
\* and after every "count =" line (and at the end) all three pending fields
\* are empty, whether or not a case was evaluated.
C28_KatCounting ==
    KatRan =>
        /\ kat.cases_passed <= kat.cases_total
        /\ kat.cases_total = kat.g.complete
        /\ kat.g.evals = kat.cases_total
        /\ Cardinality(kat.g.evald) = kat.g.evals
        /\ ~kat.g.mixed /\ ~kat.g.offb
        /\ kat.g.last \in {"count", "eof"}
             => kat.cur_ct = None /\ kat.cur_sk = None /\ kat.cur_ss = None

\* two complete records, the second with a wrong expected secret, then the
\* end of the file: 2 cases, 1 passed
C28_Witness ==
    /\ kat.pc = "done" /\ kat.result = "summary"
    /\ kat.cases_total = 2 /\ kat.cases_passed = 1
    /\ kat.g.complete = 2 /\ kat.g.rec = 1

(* ------------------------------- C29 ---------------------------------- *)

\* C29: the KAT verifier rejects every variant other than mlkem512,
\* mlkem768 and mlkem1024: for every input file run_rsp with an unknown
\* variant returns an error, never a summary, and main does not exit
\* successfully; for a known variant main exits successfully exactly when
\* run_rsp returned a summary with cases_total = cases_passed.
C29_UnknownVariantRejected ==
    (kat.pc = "done") =>
        /\ kat.variant \notin KnownVariants
             => kat.result = "error" /\ kat.exit # 0
        /\ kat.variant \in KnownVariants
             => ((kat.exit = 0) <=>
                   (kat.result = "summary" /\ kat.cases_total = kat.cases_passed))

(* ------- pqno_std: get_rng called from two execution contexts --------- *)

Contexts == {1, 2}

\* the static and the kind the build's first compiled block of get_rng uses
BuildSlot(build) ==
    IF build.cortex_m THEN [static |-> "HW_RNG", kind |-> "HardwareRng"]
    ELSE IF build.esp32 THEN [static |-> "ESP_RNG", kind |-> "Esp32Rng"]
    ELSE [static |-> "", kind |-> ""]

\* a test that finds the static empty whatever it holds
is_none_always(st, name) == TRUE

\* HW_RNG.is_none() / ESP_RNG.is_none(): one read of the static
is_none(st, name) == st[name] = <<>>

\* HW_RNG = Some(HardwareRng::new()) / ESP_RNG = Some(Esp32Rng::new()): one
\* write of the static, counted as a construction
assign_some(st, name, kind) ==
    [st EXCEPT ![name] = <<[kind |-> kind, id |-> st.built + 1]>>,
               !.built = st.built + 1]

\* `if let Some(rng) = &mut HW_RNG { return Ok(rng) }`: the reference to
\* the static, and the instance it holds at that moment
borrow_static(st, name) ==
    [static |-> name, kind |-> st[name][1].kind, id |-> st[name][1].id]

\* each context's position in get_rng (idle: outside; test, assign, borrow:
\* before that statement; hold: it has returned and the caller holds the
\* &'static mut), what its is_none test saw, the reference it holds and the
\* calls it has made; and whether the host serializes the contexts
CtxIdle(serialized) ==
    [serialized |-> serialized,
     pc   |-> [c \in Contexts |-> "idle"],
     ref  |-> [c \in Contexts |-> NoRef],
     n    |-> [c \in Contexts |-> 0]]

InitRace ==
    /\ alg \in Builds
    /\ pk = <<>> /\ sk = <<>> /\ ct = <<>> /\ ss = <<>> /\ ss2 = <<>> /\ sig = <<>>
    /\ last = NoCall
    /\ ncalls = 0
    /\ statics = NoStatics
    /\ kat = NoKat
    /\ ctx \in {CtxIdle(s) : s \in BOOLEAN}

\* the result a context's get_rng call returns
RaceReturn(res, ref) ==
    RngCall("get_rng", ref.kind,
            [res |-> res, asked |-> 0, len |-> 0, buf |-> <<>>, val |-> <<>>,
             ref |-> ref])

\* context c calls get_rng; a serializing host lets it in only when no
\* other context is inside get_rng or holds its reference.  With neither
\* block compiled the call is `Err(Error::RngFailure)` at once.
RaceCall(c) ==
    /\ ctx.pc[c] = "idle"
    /\ ncalls < MaxCalls /\ ncalls' = ncalls + 1
    /\ ctx.serialized => \A d \in Contexts : ctx.pc[d] = "idle"
    /\ IF BuildSlot(alg).static = ""
       THEN /\ ctx' = [ctx EXCEPT !.n[c] = @ + 1]
            /\ last' = RaceReturn(Err("RngFailure"), NoRef)
       ELSE /\ ctx' = [ctx EXCEPT !.n[c] = @ + 1, !.pc[c] = "test"]
            /\ last' = last
    /\ UNCHANGED <<alg, pk, sk, ct, ss, ss2, sig, statics, kat>>

\* context c evaluates `if HW_RNG.is_none()`
RaceTest(c) ==
    /\ ctx.pc[c] = "test"
    /\ ctx' = [ctx EXCEPT !.pc[c] = IF is_none(statics, BuildSlot(alg).static)
                                    THEN "assign" ELSE "borrow"]
    /\ UNCHANGED <<alg, pk, sk, ct, ss, ss2, sig, last, ncalls, statics, kat>>

\* context c executes the assignment in the body of the if
RaceAssign(c) ==
    /\ ctx.pc[c] = "assign"
    /\ statics' = assign_some(statics, BuildSlot(alg).static, BuildSlot(alg).kind)
    /\ ctx' = [ctx EXCEPT !.pc[c] = "borrow"]
    /\ UNCHANGED <<alg, pk, sk, ct, ss, ss2, sig, last, ncalls, kat>>

\* context c takes the mutable reference and returns it
RaceBorrow(c) ==
    /\ ctx.pc[c] = "borrow"
    /\ LET r == borrow_static(statics, BuildSlot(alg).static)
       IN  /\ ctx' = [ctx EXCEPT !.pc[c] = "hold", !.ref[c] = r]
           /\ last' = RaceReturn(Ok, r)
    /\ UNCHANGED <<alg, pk, sk, ct, ss, ss2, sig, ncalls, statics, kat>>

\* context c is done with the reference
RaceRelease(c) ==
    /\ ctx.pc[c] = "hold"
    /\ ctx' = [ctx EXCEPT !.pc[c] = "idle", !.ref[c] = NoRef]
    /\ UNCHANGED <<alg, pk, sk, ct, ss, ss2, sig, last, ncalls, statics, kat>>

NextRace ==
    \/ \E c \in Contexts : RaceCall(c)
    \/ \E c \in Contexts : RaceTest(c)
    \/ \E c \in Contexts : RaceAssign(c)
    \/ \E c \in Contexts : RaceBorrow(c)
    \/ \E c \in Contexts : RaceRelease(c)

SpecRace == InitRace /\ [][NextRace]_vars

(* ------------------------------- C30 ---------------------------------- *)

\* the contexts that hold the mutable reference get_rng returned
Holders == {c \in Contexts : ctx.pc[c] = "hold"}

\* C30 as stated: with two contexts calling get_rng concurrently and no
\* external serialization, in every interleaving of the is_none test and
\* the assignment the singleton is constructed at most once and at most one
\* context holds the mutable reference at a time.
C30_UnserializedSingleton ==
    ~ctx.serialized => (statics.built <= 1 /\ Cardinality(Holders) <= 1)

\* C30 amended: with two contexts calling get_rng under external
\* serialization (a context enters get_rng only when no other is inside it
\* or holds its reference) the singleton is constructed at most once and at
\* most one context holds the mutable reference at a time; with or without
\* serialization it is constructed at most once per context, and every call
\* returns a reference to the build's one static, of the build's kind.
C30_SerializedSingleton ==
    /\ ctx.serialized => (statics.built <= 1 /\ Cardinality(Holders) <= 1)
    /\ statics.built <= Cardinality(Contexts)
    /\ statics.built <= ncalls
    /\ \A c \in Holders :
          /\ ctx.ref[c].static = BuildSlot(alg).static
          /\ ctx.ref[c].kind = BuildSlot(alg).kind
          /\ ctx.ref[c].id \in 1..statics.built

\* serialized: context 1 called and released, context 2 now holds the
\* reference to the instance context 1 built
C30_Witness ==
    /\ ctx.serialized /\ alg.cortex_m
    /\ ctx.n[1] = 1 /\ ctx.n[2] = 1
    /\ ctx.pc[1] = "idle" /\ ctx.pc[2] = "hold"
    /\ statics.built = 1 /\ ctx.ref[2].id = 1

====
